---- MODULE Spec2Model ----
(***************************************************************************)
(* Call-tree analyzer (java-call-tree-analyzer/call_tree_visualizer.py):   *)
(* the graph store built by _load_json_data, the exclusion policy, the     *)
(* hierarchy resolver, the instance-type filter and the two forward        *)
(* traversals (_print_tree_recursive, _collect_tree_data).                 *)
(*                                                                         *)
(* Strings are sequences of tokens.  A class name or a member-part         *)
(* ("name(args)") is one token, and "#", "," and " " are tokens of their   *)
(* own, so that str.split and str.strip are computed, not assumed.         *)
(***************************************************************************)
EXTENDS Integers, Sequences, FiniteSets, TLC

VARIABLES
    method_info,            \* dict signature -> record, in insertion order
    class_info,             \* dict class name -> list of ancestor names
    class_data,             \* dict class name -> fieldInitializers
    interface_data,         \* keys of the interfaces section
    forward_calls,          \* dict signature -> list of call records
    reverse_calls,          \* dict signature -> list of callers
    include_exclusions,     \* mode I targets
    exclude_children,       \* mode E targets
    rule_file,              \* the lines of the exclusion rule file
    line_num,               \* number of lines load_rules has read
    pc,                     \* "idle", "running" or "done"
    inv,                    \* arguments of the running top-level call
    stack,                  \* pending recursive calls, innermost first
    out,                    \* nodes emitted so far
    accumulated_instances,  \* the shared accumulated instance set
    max_depth_reached,      \* max_depth_reached[0]
    site,                   \* locals of the last polymorphic call site
    resolved,               \* arguments and result of the last resolver call, and
                            \* the number of resolver calls made
    final_endpoints,        \* terminal methods collected by a reverse traversal
    classified,             \* argument and result of the last _determine_entry_type
    entry_points,           \* the list built by list_entry_points, as sorted
    batch,                  \* reverse_calls, methods_data and class_data of
                            \* helper/reverse_batch.py
    unread                  \* the document the constructor is reading and the
                            \* number of its method records read so far

store == <<method_info, class_info, class_data, interface_data,
           forward_calls, reverse_calls>>
policy == <<include_exclusions, exclude_children, rule_file, line_num>>
reports == <<classified, entry_points, batch, unread>>
run == <<pc, inv, stack, out, accumulated_instances, max_depth_reached, site, resolved,
         final_endpoints, reports>>
vars == <<store, policy, run>>

---------------------------------------------------------------------------
(* Strings *)

HASH == "#"
COMMA == ","
SPACE == " "
TAB == "\t"
Whitespace == {SPACE, TAB}

\* Python's None; no string of the model equals it
None == <<"None">>

\* the string of one token
Str(t) == <<t>>

\* "Class#member"
Sig(c, m) == <<c, HASH, m>>

Contains(s, t) == \E i \in 1..Len(s) : s[i] = t

FirstIndex(s, t) == CHOOSE i \in 1..Len(s) : s[i] = t /\ \A j \in 1..(i - 1) : s[j] # t

RECURSIVE split(_, _)
\* s.split(sep)
split(s, sep) ==
    IF ~Contains(s, sep) THEN <<s>>
    ELSE LET i == FirstIndex(s, sep)
         IN  <<SubSeq(s, 1, i - 1)>> \o split(SubSeq(s, i + 1, Len(s)), sep)

\* s.split(sep, 1)
split1(s, sep) ==
    IF ~Contains(s, sep) THEN <<s>>
    ELSE LET i == FirstIndex(s, sep)
         IN  <<SubSeq(s, 1, i - 1), SubSeq(s, i + 1, Len(s))>>

RECURSIVE strip(_)
\* s.strip()
strip(s) ==
    IF s = <<>> THEN s
    ELSE IF Head(s) \in Whitespace THEN strip(Tail(s))
    ELSE IF s[Len(s)] \in Whitespace THEN strip(SubSeq(s, 1, Len(s) - 1))
    ELSE s

RECURSIVE StripNonEmpty(_)
\* [p.strip() for p in parts if p.strip()]
StripNonEmpty(parts) ==
    IF parts = <<>> THEN <<>>
    ELSE LET p == strip(Head(parts))
         IN  (IF p # <<>> THEN <<p>> ELSE <<>>) \o StripNonEmpty(Tail(parts))

\* [p.strip() for p in s.split(",") if p.strip()]
CommaList(s) == StripNonEmpty(split(s, COMMA))

Range(s) == {s[i] : i \in 1..Len(s)}

\* dict.get(k, default) on a function
Get(d, k, default) == IF k \in DOMAIN d THEN d[k] ELSE default

\* d[k] = v on a function
Put(d, k, v) == [x \in (DOMAIN d) \cup {k} |-> IF x = k THEN v ELSE d[x]]

EmptyDict == [x \in {} |-> <<>>]

---------------------------------------------------------------------------
(* ExclusionRuleManager *)

ClassNameNever(method_signature) == None

_extract_class_name(method_signature) ==
    IF Contains(method_signature, HASH)
    THEN split(method_signature, HASH)[1]
    ELSE None

_extract_method_part(method_signature) ==
    IF Contains(method_signature, HASH)
    THEN split(method_signature, HASH)[2]
    ELSE None

\* Python truthiness of an Optional[str]
Truthy(s) == s # None /\ s # <<>>

should_include(method_or_class) ==
    IF method_or_class \in include_exclusions THEN FALSE
    ELSE LET class_name == _extract_class_name(method_or_class)
         IN  IF Truthy(class_name) /\ class_name \in include_exclusions THEN FALSE
             ELSE LET method_part == _extract_method_part(method_or_class)
                  IN  IF Truthy(method_part) /\ method_part \in include_exclusions
                      THEN FALSE
                      ELSE TRUE

should_exclude_children(method_or_class) ==
    IF method_or_class \in exclude_children THEN TRUE
    ELSE LET class_name == _extract_class_name(method_or_class)
         IN  IF Truthy(class_name) /\ class_name \in exclude_children THEN TRUE
             ELSE LET method_part == _extract_method_part(method_or_class)
                  IN  IF Truthy(method_part) /\ method_part \in exclude_children
                      THEN TRUE
                      ELSE FALSE

\* str.upper() on the mode letters of the model
upper(s) ==
    [i \in 1..Len(s) |-> IF s[i] = "i" THEN "I" ELSE IF s[i] = "e" THEN "E" ELSE s[i]]

\* one iteration of the loop of load_rules over the lines of the file
load_rules ==
    /\ line_num < Len(rule_file)
    /\ line_num' = line_num + 1
    /\ \E line \in {strip(rule_file[line_num + 1])} :
       \E parts \in {split(line, TAB)} :
           IF line = <<>> \/ Head(line) = HASH
           THEN UNCHANGED <<include_exclusions, exclude_children>>
           ELSE IF Len(parts) # 2
           THEN UNCHANGED <<include_exclusions, exclude_children>>
           ELSE \E target \in {strip(parts[1])} :
                \E mode \in {upper(strip(parts[2]))} :
                    IF mode = Str("I")
                    THEN /\ include_exclusions' = include_exclusions \cup {target}
                         /\ UNCHANGED exclude_children
                    ELSE IF mode = Str("E")
                    THEN /\ exclude_children' = exclude_children \cup {target}
                         /\ UNCHANGED include_exclusions
                    ELSE UNCHANGED <<include_exclusions, exclude_children>>
    /\ UNCHANGED <<store, run, rule_file>>

---------------------------------------------------------------------------
(* Graph store: _load_json_data *)

\* method_info[sig] = info, keeping the position of a key already present
DictPut(d, k, v) ==
    IF \E i \in 1..Len(d) : d[i].key = k
    THEN [i \in 1..Len(d) |-> IF d[i].key = k THEN [key |-> k, value |-> v] ELSE d[i]]
    ELSE Append(d, [key |-> k, value |-> v])

DictHas(d, k) == \E i \in 1..Len(d) : d[i].key = k

DictGet(d, k, default) ==
    IF DictHas(d, k) THEN d[CHOOSE i \in 1..Len(d) : d[i].key = k].value ELSE default

\* the {} that method_info.get(method, {}) returns, read through .get with defaults
NoInfo ==
    [class |-> <<>>, parent |-> <<>>, createdInstances |-> <<>>,
     visibility |-> "", is_static |-> FALSE, is_entry_point |-> FALSE,
     entry_type |-> "", annotations |-> <<>>, class_annotations |-> <<>>]

\* method.get(name, default) on a record of the document
Field(rec, name, default) == IF name \in DOMAIN rec THEN rec[name] ELSE default

RECURSIVE join(_, _)
\* sep.join(parts)
join(sep, parts) ==
    IF parts = <<>> THEN <<>>
    ELSE IF Len(parts) = 1 THEN parts[1]
    ELSE parts[1] \o <<sep>> \o join(sep, Tail(parts))

SelectNotIn(s, S) == SelectSeq(s, LAMBDA p : p \notin S)

\* the class hierarchy entry after one method record
MergeParents(ci, class_name, parent_classes_str) ==
    IF class_name # <<>> /\ parent_classes_str # <<>>
    THEN LET parents == CommaList(parent_classes_str)
         IN  IF class_name \notin DOMAIN ci \/ ci[class_name] = <<>>
             THEN Put(ci, class_name, parents)
             ELSE LET existing == Range(ci[class_name])
                  IN  Put(ci, class_name, ci[class_name] \o SelectNotIn(parents, existing))
    ELSE ci

RECURSIVE AppendCalls(_, _, _)
\* the calls loop of one method record
AppendCalls(fc, method_sig, calls_data) ==
    IF calls_data = <<>> THEN fc
    ELSE LET call_item == Head(calls_data)
             callee == call_item.method
             entry == [method |-> callee,
                       is_parent_method |-> IF call_item.isParentMethod THEN "Yes" ELSE "No",
                       implementations |-> call_item.implementations]
             fc2 == IF callee # <<>>
                    THEN Put(fc, method_sig, Append(Get(fc, method_sig, <<>>), entry))
                    ELSE fc
         IN  AppendCalls(fc2, method_sig, Tail(calls_data))

\* one iteration of the methods loop
LoadMethod(st, method) ==
    LET method_sig == method.method
    IN  IF method_sig = <<>> THEN st
        ELSE [method_info |->
                  DictPut(st.method_info, method_sig,
                          [class |-> method.class,
                           parent |-> method.parentClasses,
                           createdInstances |-> method.createdInstances,
                           visibility |-> Field(method, "visibility", ""),
                           is_static |-> Field(method, "isStatic", FALSE),
                           is_entry_point |-> Field(method, "isEntryPoint", FALSE),
                           entry_type |-> Field(method, "entryType", ""),
                           annotations |->
                               join(COMMA, Field(method, "annotations", <<>>)),
                           class_annotations |->
                               join(COMMA, Field(method, "classAnnotations", <<>>))]),
              class_info |-> MergeParents(st.class_info, method.class, method.parentClasses),
              forward_calls |-> AppendCalls(st.forward_calls, method_sig, method.calls),
              reverse_calls |->
                  IF method.calledBy = <<>> THEN st.reverse_calls
                  ELSE Put(st.reverse_calls, method_sig,
                           Get(st.reverse_calls, method_sig, <<>>) \o method.calledBy)]

RECURSIVE LoadMethods(_, _)
LoadMethods(st, methods) ==
    IF methods = <<>> THEN st
    ELSE LoadMethods(LoadMethod(st, Head(methods)), Tail(methods))

RECURSIVE LoadClasses(_, _)
\* the classes section: only fieldInitializers is read by the traversals
LoadClasses(cd, classes) ==
    IF classes = <<>> THEN cd
    ELSE LET cls == Head(classes)
         IN  LoadClasses(IF cls.className # <<>>
                         THEN Put(cd, cls.className, cls.fieldInitializers)
                         ELSE cd,
                         Tail(classes))

\* the interfaces section: its keys
LoadInterfaces(interfaces) == {iface \in Range(interfaces) : iface # <<>>}

EmptyStore ==
    [method_info |-> <<>>, class_info |-> EmptyDict,
     forward_calls |-> EmptyDict, reverse_calls |-> EmptyDict]

\* the store after the constructor has read the document
_load_json_data(data) ==
    LET st == LoadMethods(EmptyStore, data.methods)
    IN  /\ method_info = st.method_info
        /\ class_info = st.class_info
        /\ forward_calls = st.forward_calls
        /\ reverse_calls = st.reverse_calls
        /\ class_data = LoadClasses(EmptyDict, data.classes)
        /\ interface_data = LoadInterfaces(data.interfaces)

---------------------------------------------------------------------------
(* Hierarchy resolver and instance-type filter *)

\* the scan "for method_sig, info in self.method_info.items()" for a method
\* owned by cls whose text after the first '#' is method_part
OwnedMatches(cls, method_part) ==
    {i \in 1..Len(method_info) :
        /\ method_info[i].value.class = cls
        /\ Contains(method_info[i].key, HASH)
        /\ split1(method_info[i].key, HASH)[2] = method_part}

FirstOwned(cls, method_part) ==
    LET hits == OwnedMatches(cls, method_part)
    IN  IF hits = {} THEN None
        ELSE method_info[CHOOSE i \in hits : \A j \in hits : i <= j].key

RECURSIVE FirstParentHit(_, _)
\* the single pass of the while loop over the direct parents
FirstParentHit(parents, method_part) ==
    IF parents = <<>> THEN None
    ELSE LET parent == Head(parents)
         IN  IF parent \in interface_data
             THEN FirstParentHit(Tail(parents), method_part)
             ELSE LET hit == FirstOwned(parent, method_part)
                  IN  IF hit # None THEN hit
                      ELSE FirstParentHit(Tail(parents), method_part)

\* the number of iterations after which the model gives the queue loop up
MaxBfsSteps == 12

\* faulty variant of the visited test, which the properties below reject
RevisitNever(current_parent, visited_classes) == FALSE

\* "if current_parent in visited_classes: continue"
Revisit(current_parent, visited_classes) == current_parent \in visited_classes

RECURSIVE BfsLoop(_, _, _, _, _)
\* the queue loop: its result, the class names it added to visited_classes in
\* order, and whether it came to its end within MaxBfsSteps iterations
BfsLoop(queue, visited_classes, method_part, visits, steps) ==
    IF queue = <<>> THEN [result |-> None, visits |-> visits, ended |-> TRUE]
    ELSE IF steps >= MaxBfsSteps THEN [result |-> None, visits |-> visits, ended |-> FALSE]
    ELSE LET current_parent == Head(queue)
             visited2 == visited_classes \cup {current_parent}
             visits2 == Append(visits, current_parent)
         IN  IF Revisit(current_parent, visited_classes)
             THEN BfsLoop(Tail(queue), visited_classes, method_part, visits, steps + 1)
             ELSE IF current_parent \in interface_data
             THEN BfsLoop(Tail(queue), visited2, method_part, visits2, steps + 1)
             ELSE LET hit == FirstOwned(current_parent, method_part)
                  IN  IF hit # None
                      THEN [result |-> hit, visits |-> visits2, ended |-> TRUE]
                      ELSE BfsLoop(Tail(queue) \o Get(class_info, current_parent, <<>>),
                                   visited2, method_part, visits2, steps + 1)

BfsParents(queue, visited_classes, method_part) ==
    BfsLoop(queue, visited_classes, method_part, <<>>, 0).result

\* faulty variants of the resolver, which the properties below reject
FindOwnOnly(abstract_method, impl_class) ==
    IF ~Contains(abstract_method, HASH) THEN None
    ELSE FirstOwned(impl_class, split1(abstract_method, HASH)[2])

FindAncestorFirst(abstract_method, impl_class) ==
    IF ~Contains(abstract_method, HASH) THEN None
    ELSE LET method_part == split1(abstract_method, HASH)[2]
             above == BfsParents(Get(class_info, impl_class, <<>>), {impl_class},
                                 method_part)
         IN  IF above # None THEN above ELSE FirstOwned(impl_class, method_part)

_find_implementation_method(abstract_method, impl_class) ==
    IF ~Contains(abstract_method, HASH) THEN None
    ELSE LET method_part == split1(abstract_method, HASH)[2]
             direct == FirstOwned(impl_class, method_part)
             parents == Get(class_info, impl_class, <<>>)
             near == IF impl_class # <<>> THEN FirstParentHit(parents, method_part)
                     ELSE None
         IN  IF direct # None THEN direct
             ELSE IF near # None THEN near
             ELSE BfsParents(parents, {impl_class}, method_part)

FilterWithoutFallback(accumulated, implementations) ==
    SelectSeq(implementations, LAMBDA impl : impl \in accumulated)

_filter_implementations_by_accumulated_instances(accumulated, implementations) ==
    IF implementations = <<>> \/ accumulated = {} THEN implementations
    ELSE LET filtered == SelectSeq(implementations, LAMBDA impl : impl \in accumulated)
         IN  IF filtered # <<>> THEN filtered ELSE implementations

_collect_created_instances(method) ==
    LET info == DictGet(method_info, method, NoInfo)
        method_class == info.class
        inits == IF method_class # <<>> THEN Get(class_data, method_class, <<>>) ELSE <<>>
    IN  Range(info.createdInstances) \cup {c \in Range(inits) : c # <<>>}

---------------------------------------------------------------------------
(* Entry-point classification.  An annotation name is a sequence of its    *)
(* words ("GetMapping" is <<"Get", "Mapping">>), so that the substring     *)
(* tests of the code see a name inside a longer one.                       *)

\* needle in hay
IsSubstring(needle, hay) ==
    \E i \in 1..(Len(hay) - Len(needle) + 1) :
        SubSeq(hay, i, i + Len(needle) - 1) = needle

\* any(n in hay for n in needles)
AnyIn(needles, hay) == \E n \in needles : IsSubstring(n, hay)

\* str.lower() on the words of the model
lower(s) ==
    [i \in 1..Len(s) |-> IF s[i] \in {"Main", "MAIN"} THEN "main" ELSE s[i]]

\* the signatures of method_info, in its order, owned by parent_class with
\* member-part method_part
OwnedSigs(parent_class, method_part) ==
    LET found == SelectSeq(method_info, LAMBDA e :
                     /\ e.value.class = parent_class
                     /\ Contains(e.key, HASH)
                     /\ split1(e.key, HASH)[2] = method_part)
    IN  [i \in 1..Len(found) |-> found[i].key]

RECURSIVE ParentMethodsOf(_, _)
\* the loop over the parent classes
ParentMethodsOf(parent_classes, method_part) ==
    IF parent_classes = <<>> THEN <<>>
    ELSE OwnedSigs(Head(parent_classes), method_part)
         \o ParentMethodsOf(Tail(parent_classes), method_part)

_find_parent_methods(method) ==
    IF ~Contains(method, HASH) THEN <<>>
    ELSE LET info == DictGet(method_info, method, NoInfo)
             method_part == split1(method, HASH)[2]
             parent_classes_str == info.parent
         IN  IF parent_classes_str = <<>> THEN <<>>
             ELSE ParentMethodsOf(CommaList(parent_classes_str), method_part)

\* the test the code makes for each category it can return
MatchesCategory(info, category) ==
    LET annotations == info.annotations
        class_annotations == info.class_annotations
    IN  CASE category = "Main Method" ->
                 info.is_static /\ IsSubstring(<<"main">>, lower(info.class))
          [] category = "Test Method" ->
                 AnyIn({<<"Test">>, <<"Test", "Template">>, <<"Parameterized", "Test">>,
                        <<"Repeated", "Test">>, <<"Test", "Factory">>}, annotations)
          [] category = "HTTP Endpoint (Spring)" ->
                 \/ AnyIn({<<"Request", "Mapping">>, <<"Get", "Mapping">>,
                           <<"Post", "Mapping">>, <<"Put", "Mapping">>,
                           <<"Delete", "Mapping">>, <<"Patch", "Mapping">>}, annotations)
                 \/ AnyIn({<<"Controller">>, <<"Rest", "Controller">>}, class_annotations)
          [] category = "HTTP Endpoint (JAX-RS)" ->
                 AnyIn({<<"Path">>, <<"GET">>, <<"POST">>, <<"PUT">>, <<"DELETE">>,
                        <<"PATCH">>}, annotations)
          [] category = "SOAP Endpoint (JAX-WS)" ->
                 \/ IsSubstring(<<"Web", "Method">>, annotations)
                 \/ AnyIn({<<"Web", "Service">>, <<"Web", "Service", "Provider">>},
                          class_annotations)
          [] category = "Scheduled Job" ->
                 AnyIn({<<"Scheduled">>, <<"Schedules">>, <<"Async">>}, annotations)
          [] category = "Event Listener" ->
                 AnyIn({<<"Event", "Listener">>, <<"Transactional", "Event", "Listener">>,
                        <<"Jms", "Listener">>, <<"Rabbit", "Listener">>,
                        <<"Kafka", "Listener">>, <<"Stream", "Listener">>,
                        <<"Message", "Mapping">>, <<"Subscribe", "Mapping">>}, annotations)
          [] category = "Lifecycle Method" ->
                 AnyIn({<<"Post", "Construct">>, <<"Pre", "Destroy">>, <<"Before", "All">>,
                        <<"After", "All">>, <<"Before", "Each">>, <<"After", "Each">>,
                        <<"Before">>, <<"After">>, <<"Before", "Class">>,
                        <<"After", "Class">>}, annotations)
          [] category = "Bean Factory" -> IsSubstring(<<"Bean">>, annotations)
          [] category = "Servlet" ->
                 \/ IsSubstring(<<"Web", "Servlet">>, annotations)
                 \/ IsSubstring(<<"Web", "Servlet">>, class_annotations)
          [] category = "Public Method" -> info.visibility = "public"
          [] OTHER -> FALSE

\* the categories in the order in which the code tests them
CheckOrder ==
    <<"Main Method", "Test Method", "HTTP Endpoint (Spring)", "HTTP Endpoint (JAX-RS)",
      "SOAP Endpoint (JAX-WS)", "Scheduled Job", "Event Listener", "Lifecycle Method",
      "Bean Factory", "Servlet", "Public Method">>

RECURSIVE FirstMatch(_, _)
\* the chain of if statements: the first test that matches returns
FirstMatch(info, categories) ==
    IF categories = <<>> THEN "Unknown"
    ELSE IF MatchesCategory(info, Head(categories)) THEN Head(categories)
    ELSE FirstMatch(info, Tail(categories))

_check_entry_type_from_info(info) == FirstMatch(info, CheckOrder)

priority_map ==
    [x \in {"Main Method", "HTTP Endpoint (Spring)", "HTTP Endpoint (JAX-RS)",
            "SOAP Endpoint (JAX-WS)", "Servlet", "Spring Boot Runner", "Scheduled Job",
            "Event Listener", "Runnable/Callable", "Lifecycle Method", "Test Method",
            "Bean Factory", "Public Method", "Unknown"} |->
        CASE x = "Main Method" -> 1
          [] x = "HTTP Endpoint (Spring)" -> 2
          [] x = "HTTP Endpoint (JAX-RS)" -> 3
          [] x = "SOAP Endpoint (JAX-WS)" -> 4
          [] x = "Servlet" -> 5
          [] x = "Spring Boot Runner" -> 6
          [] x = "Scheduled Job" -> 7
          [] x = "Event Listener" -> 8
          [] x = "Runnable/Callable" -> 9
          [] x = "Lifecycle Method" -> 10
          [] x = "Test Method" -> 11
          [] x = "Bean Factory" -> 12
          [] x = "Public Method" -> 13
          [] OTHER -> 14]

\* priority_map.get(entry_type, 14)
_entry_priority(entry_type) ==
    IF entry_type \in DOMAIN priority_map THEN priority_map[entry_type] ELSE 14

type_map ==
    [x \in {"Main", "Test", "HTTP", "SOAP", "Scheduled", "Event", "Lifecycle", "Servlet",
            "SpringBoot", "Thread", "Bean"} |->
        CASE x = "Main" -> "Main Method"
          [] x = "Test" -> "Test Method"
          [] x = "HTTP" -> "HTTP Endpoint"
          [] x = "SOAP" -> "SOAP Endpoint"
          [] x = "Scheduled" -> "Scheduled Job"
          [] x = "Event" -> "Event Listener"
          [] x = "Lifecycle" -> "Lifecycle Method"
          [] x = "Servlet" -> "Servlet"
          [] x = "SpringBoot" -> "Spring Boot Runner"
          [] x = "Thread" -> "Runnable/Callable"
          [] OTHER -> "Bean Factory"]

\* faulty variant of the parent candidates, which the properties below
\* reject: the ancestor declarations are not looked at
ParentEntryTypesIgnored(parent_methods) == <<>>

RECURSIVE ParentEntryTypes(_)
\* the candidates contributed by the parent methods
ParentEntryTypes(parent_methods) ==
    IF parent_methods = <<>> THEN <<>>
    ELSE (IF DictHas(method_info, Head(parent_methods))
          THEN <<_check_entry_type_from_info(
                     DictGet(method_info, Head(parent_methods), NoInfo))>>
          ELSE <<>>)
         \o ParentEntryTypes(Tail(parent_methods))

\* faulty variant of the choice among the candidates, which the properties
\* below reject
FirstCandidate(candidates) == candidates[1]

\* candidates.sort(key=priority)[0]: the first candidate of the least priority
FirstByPriority(candidates) ==
    candidates[CHOOSE i \in 1..Len(candidates) :
        /\ \A j \in 1..Len(candidates) :
              _entry_priority(candidates[i]) <= _entry_priority(candidates[j])
        /\ \A j \in 1..(i - 1) :
              _entry_priority(candidates[j]) > _entry_priority(candidates[i])]

_determine_entry_type(method, info) ==
    LET raw == info.entry_type
        mapped == IF raw = "" THEN <<>>
                  ELSE <<IF raw \in DOMAIN type_map THEN type_map[raw] ELSE raw>>
        own == <<_check_entry_type_from_info(info)>>
        candidates == mapped \o own \o ParentEntryTypes(_find_parent_methods(method))
    IN  IF candidates = <<>> THEN "" ELSE FirstByPriority(candidates)

\* the code points of the first characters of the words of a signature
CodePoint(w) ==
    CASE w = HASH -> 35
      [] w = "A" -> 65
      [] w = "B" -> 66
      [] w = "Main" -> 77
      [] w = "m" -> 109
      [] OTHER -> 110

RECURSIVE StrLess(_, _)
\* a < b on strings
StrLess(a, b) ==
    IF b = <<>> THEN FALSE
    ELSE IF a = <<>> THEN TRUE
    ELSE IF CodePoint(Head(a)) # CodePoint(Head(b))
    THEN CodePoint(Head(a)) < CodePoint(Head(b))
    ELSE StrLess(Tail(a), Tail(b))

\* the sort key (priority of the entry type, signature) of one row
KeyLess(x, y) ==
    \/ _entry_priority(x.entry_type) < _entry_priority(y.entry_type)
    \/ /\ _entry_priority(x.entry_type) = _entry_priority(y.entry_type)
       /\ StrLess(x.method, y.method)

\* faulty variant of the sort, which the properties below reject
SortBySignature(rows) ==
    LET n == Len(rows)
        pos(i) == 1 + Cardinality({j \in 1..n :
                          \/ StrLess(rows[j].method, rows[i].method)
                          \/ ~StrLess(rows[i].method, rows[j].method) /\ j < i})
    IN  [k \in 1..n |-> rows[CHOOSE i \in 1..n : pos(i) = k]]

\* list.sort(key=...): a stable sort, each row placed after the rows whose
\* key is smaller and after the earlier rows whose key is not larger
SortByKey(rows) ==
    LET n == Len(rows)
        pos(i) == 1 + Cardinality({j \in 1..n :
                          \/ KeyLess(rows[j], rows[i])
                          \/ ~KeyLess(rows[i], rows[j]) /\ j < i})
    IN  [k \in 1..n |-> rows[CHOOSE i \in 1..n : pos(i) = k]]

\* faulty variant of all_callees, which the properties below reject: a call
\* of a method by itself is not counted
AllCalleesOfOthers ==
    UNION {{callee_info.method : callee_info \in Range(forward_calls[caller])} \ {caller} :
              caller \in DOMAIN forward_calls}

\* all_callees
AllCallees ==
    UNION {{callee_info.method : callee_info \in Range(forward_calls[caller])} :
              caller \in DOMAIN forward_calls}

\* the loop over method_info.items() of list_entry_points
EntryRows(min_calls, strict) ==
    LET kept == SelectSeq(method_info, LAMBDA e :
                    /\ e.key \notin AllCallees
                    /\ e.value.class \notin interface_data
                    /\ IF strict THEN e.value.is_entry_point
                       ELSE Len(Get(forward_calls, e.key, <<>>)) >= min_calls)
    IN  [i \in 1..Len(kept) |->
            [method |-> kept[i].key,
             call_count |-> Len(Get(forward_calls, kept[i].key, <<>>)),
             entry_type |-> _determine_entry_type(kept[i].key, kept[i].value)]]

---------------------------------------------------------------------------
(* Forward traversal: _print_tree_recursive and _collect_tree_data.        *)
(* The recursion is run on an explicit stack.  A "call" frame is a pending *)
(* recursive call; an "impl" frame is the rest of one iteration of the     *)
(* callee loop, which runs after the callee's own subtree has returned.    *)

\* accumulated_instances=None of the top-level call
AccNone == {None}

Frame(op, method, depth, visited, relation, implementations) ==
    [op |-> op, method |-> method, depth |-> depth, visited |-> visited,
     relation |-> relation, implementations |-> implementations]

Node(depth, method, is_circular, relation) ==
    [depth |-> depth, method |-> method, is_circular |-> is_circular,
     parent_relation |-> relation]

NoSite == [callee |-> <<>>, impl_classes |-> <<>>, accumulated |-> {}, filtered |-> <<>>]

NoResolved == [abstract_method |-> <<>>, impl_class |-> <<>>, result |-> None, calls |-> 0]

NoInv == [kind |-> "none", root_method |-> <<>>, max_depth |-> 0,
          follow_implementations |-> FALSE, follow_overrides |-> FALSE,
          min_calls |-> 0, strict |-> FALSE]

NoClassified == [method |-> <<>>, entry_type |-> ""]

\* impl.split(" ")[0] of every listed implementation
FirstWords(implementations) ==
    [i \in 1..Len(implementations) |-> split(implementations[i], SPACE)[1]]

\* faulty variant of the merge, which the properties below reject
MergedPerNode(method) == _collect_created_instances(method)

\* the accumulated set after merging the node's own instantiated types
Merged(method) ==
    IF accumulated_instances = AccNone
    THEN _collect_created_instances(method)
    ELSE accumulated_instances \cup _collect_created_instances(method)

\* faulty variants of the traversal guards, which the properties below reject
VisitedAddNothing(visited, method) == visited

SkipNever(method) == FALSE

SkipBelowCut(method) ==
    \/ ~should_include(method)
    \/ \E i \in 1..Len(out) :
          /\ should_exclude_children(out[i].method)
          /\ \E e \in Range(Get(forward_calls, out[i].method, <<>>)) : e.method = method

IsCircularGlobal(method, visited) == \E i \in 1..Len(out) : out[i].method = method

CutNever(method) == FALSE

CalleesNotYetEmitted(method) ==
    SelectSeq(Get(forward_calls, method, <<>>),
              LAMBDA e : \A i \in 1..Len(out) : out[i].method # e.method)

\* a method without edges of its own gets those of a method of the same name
CalleesOrNamesake(method) ==
    LET namesakes == {k \in DOMAIN forward_calls :
                         /\ Contains(k, HASH) /\ Contains(method, HASH)
                         /\ split1(k, HASH)[2] = split1(method, HASH)[2]}
    IN  IF method \in DOMAIN forward_calls THEN forward_calls[method]
        ELSE IF namesakes = {} THEN <<>>
        ELSE forward_calls[CHOOSE k \in namesakes : TRUE]

CeilingNever(depth) == FALSE

PivotNever(method) == <<>>

NoCallersNever(callers) == FALSE

\* "if depth > max_depth"
AboveCeiling(depth) == depth > inv.max_depth

\* the visited set the children of a node receive
VisitedAdd(visited, method) == visited \cup {method}

\* "if not self.exclusion_manager.should_include(method): return"
Skip(method) == ~should_include(method)

\* "if method in visited"
IsCircular(method, visited) == method \in visited

\* "if self.exclusion_manager.should_exclude_children(method)" after the node
Cut(method) == should_exclude_children(method)

\* self.forward_calls.get(method, [])
Callees(method) == Get(forward_calls, method, <<>>)

RECURSIVE PrintChildren(_, _, _)
\* the callee loop of _print_tree_recursive, one pair of frames per iteration
PrintChildren(callees, depth, visited) ==
    IF callees = <<>> THEN <<>>
    ELSE LET callee_info == Head(callees)
             callee == callee_info.method
             rest == PrintChildren(Tail(callees), depth, visited)
         IN  IF ~should_include(callee) THEN rest
             ELSE <<Frame("call", callee, depth + 1, visited, "", <<>>)>>
                  \o (IF callee_info.implementations # <<>> /\ inv.follow_implementations
                      THEN <<Frame("impl", callee, depth, visited, "",
                                   callee_info.implementations)>>
                      ELSE <<>>)
                  \o rest

\* faulty variant of the relation, which the properties below reject: the
\* candidates are looked at before the flag
RelationByCandidates(callee_info) ==
    IF callee_info.implementations # <<>> THEN "interface"
    ELSE IF callee_info.is_parent_method = "Yes" THEN "parent_class_method"
    ELSE ""

\* the relation of a callee to its caller: the tags written for an ancestor's
\* method, for an interface method, and for a plain call
Relation(callee_info) ==
    IF callee_info.is_parent_method = "Yes" THEN "parent_class_method"
    ELSE IF callee_info.implementations # <<>> THEN "interface"
    ELSE ""

RECURSIVE CollectChildren(_, _, _)
\* the callee loop of _collect_tree_data
CollectChildren(callees, depth, visited_copy) ==
    IF callees = <<>> THEN <<>>
    ELSE LET callee_info == Head(callees)
             callee == callee_info.method
             relation == Relation(callee_info)
             rest == CollectChildren(Tail(callees), depth, visited_copy)
         IN  IF ~should_include(callee) THEN rest
             ELSE <<Frame("call", callee, depth + 1, visited_copy, relation, <<>>)>>
                  \o (IF inv.follow_implementations /\ callee_info.implementations # <<>>
                      THEN <<Frame("impl", callee, depth, visited_copy, "",
                                   callee_info.implementations)>>
                      ELSE <<>>)
                  \o rest

RECURSIVE ImplCallsOrTarget(_, _, _, _)
\* faulty variant of the loop, which the properties below reject: a candidate
\* that does not resolve is expanded as the abstract target
ImplCallsOrTarget(impl_classes, callee, depth, visited) ==
    IF impl_classes = <<>> THEN <<>>
    ELSE LET impl_method == _find_implementation_method(callee, Head(impl_classes))
             rest == ImplCallsOrTarget(Tail(impl_classes), callee, depth, visited)
         IN  IF impl_method # None /\ impl_method # <<>> /\ should_include(impl_method)
             THEN <<Frame("call", impl_method, depth + 1, visited,
                          "implementation_candidate", <<>>)>> \o rest
             ELSE <<Frame("call", callee, depth + 1, visited,
                          "implementation_candidate", <<>>)>> \o rest

RECURSIVE ImplCalls(_, _, _, _)
\* the loop over the filtered implementation classes
ImplCalls(impl_classes, callee, depth, visited) ==
    IF impl_classes = <<>> THEN <<>>
    ELSE LET impl_method == _find_implementation_method(callee, Head(impl_classes))
             rest == ImplCalls(Tail(impl_classes), callee, depth, visited)
         IN  IF impl_method # None /\ impl_method # <<>> /\ should_include(impl_method)
             THEN <<Frame("call", impl_method, depth + 1, visited,
                          "implementation_candidate", <<>>)>> \o rest
             ELSE rest

\* "if accumulated_instances:" around the filter
FilterAtSite(impl_classes) ==
    IF accumulated_instances # AccNone /\ accumulated_instances # {}
    THEN _filter_implementations_by_accumulated_instances(accumulated_instances,
                                                          impl_classes)
    ELSE impl_classes

Continue(rest) ==
    /\ stack' = rest
    /\ pc' = IF rest = <<>> THEN "done" ELSE "running"

\* faulty variant of the top-level call, which the properties below reject:
\* the accumulated set of the call before is passed on
BeginWithOldSet(kind, root_method, max_depth, follow_implementations) ==
    /\ pc \in {"idle", "done"}
    /\ inv' = [NoInv EXCEPT !.kind = kind, !.root_method = root_method,
                            !.max_depth = max_depth,
                            !.follow_implementations = follow_implementations]
    /\ stack' = <<Frame("call", root_method, 0, {}, "", <<>>)>>
    /\ out' = <<>>
    /\ max_depth_reached' = FALSE
    /\ site' = NoSite
    /\ pc' = "running"
    /\ final_endpoints' = {}
    /\ UNCHANGED <<store, policy, resolved, reports, accumulated_instances>>

Begin(kind, root_method, max_depth, follow_implementations) ==
    /\ pc \in {"idle", "done"}
    /\ inv' = [NoInv EXCEPT !.kind = kind, !.root_method = root_method,
                            !.max_depth = max_depth,
                            !.follow_implementations = follow_implementations]
    /\ stack' = <<Frame("call", root_method, 0, {}, "", <<>>)>>
    /\ out' = <<>>
    /\ accumulated_instances' = AccNone
    /\ max_depth_reached' = FALSE
    /\ site' = NoSite
    /\ pc' = "running"
    /\ final_endpoints' = {}
    /\ UNCHANGED <<store, policy, resolved, reports>>

print_forward_tree(root_method, max_depth, follow_implementations) ==
    Begin("print", root_method, max_depth, follow_implementations)

export_tree_to_csv(entry_point, max_depth, follow_implementations) ==
    Begin("collect", entry_point, max_depth, follow_implementations)

\* In the four steps below a value computed once by the code is bound once,
\* by \E over a singleton.

\* one activation of _print_tree_recursive, up to its callee loop
_print_tree_recursive ==
    /\ pc = "running" /\ inv.kind = "print"
    /\ stack # <<>> /\ Head(stack).op = "call"
    /\ \E f \in {Head(stack)} :
       \E rest \in {Tail(stack)} :
       \E visited \in {VisitedAdd(f.visited, f.method)} :
       \E children \in {PrintChildren(Callees(f.method), f.depth, visited)} :
           IF AboveCeiling(f.depth)
           THEN /\ max_depth_reached' = TRUE
                /\ Continue(rest)
                /\ UNCHANGED <<out, accumulated_instances>>
           ELSE IF Skip(f.method)
           THEN /\ Continue(rest)
                /\ UNCHANGED <<out, accumulated_instances, max_depth_reached>>
           ELSE IF IsCircular(f.method, f.visited)
           THEN /\ out' = Append(out, Node(f.depth, f.method, TRUE, ""))
                /\ Continue(rest)
                /\ UNCHANGED <<accumulated_instances, max_depth_reached>>
           ELSE /\ out' = Append(out, Node(f.depth, f.method, FALSE, ""))
                /\ accumulated_instances' = Merged(f.method)
                /\ IF Cut(f.method)
                   THEN Continue(rest)
                   ELSE Continue(children \o rest)
                /\ UNCHANGED max_depth_reached
    /\ UNCHANGED <<store, policy, inv, site, resolved, final_endpoints, reports>>

\* the implementation part of one callee-loop iteration of _print_tree_recursive
PrintImplementations ==
    /\ pc = "running" /\ inv.kind = "print"
    /\ stack # <<>> /\ Head(stack).op = "impl"
    /\ \E f \in {Head(stack)} :
       \E rest \in {Tail(stack)} :
       \E impl_classes \in {FirstWords(CommaList(f.implementations))} :
       \E filtered_impl_classes \in {FilterAtSite(impl_classes)} :
       \E calls \in {ImplCalls(filtered_impl_classes, f.method, f.depth, f.visited)} :
           IF should_exclude_children(f.method)
           THEN /\ Continue(rest)
                /\ UNCHANGED site
           ELSE /\ site' = [callee |-> f.method, impl_classes |-> impl_classes,
                            accumulated |-> accumulated_instances,
                            filtered |-> filtered_impl_classes]
                /\ Continue(calls \o rest)
    /\ UNCHANGED <<store, policy, inv, out, accumulated_instances, max_depth_reached,
                   resolved, final_endpoints, reports>>

\* one activation of _collect_tree_data, up to its callee loop
_collect_tree_data ==
    /\ pc = "running" /\ inv.kind = "collect"
    /\ stack # <<>> /\ Head(stack).op = "call"
    /\ \E f \in {Head(stack)} :
       \E rest \in {Tail(stack)} :
       \E is_circular \in {IsCircular(f.method, f.visited)} :
       \E visited_copy \in {VisitedAdd(f.visited, f.method)} :
       \E children \in {CollectChildren(Callees(f.method), f.depth, visited_copy)} :
           IF AboveCeiling(f.depth)
           THEN /\ max_depth_reached' = TRUE
                /\ Continue(rest)
                /\ UNCHANGED <<out, accumulated_instances>>
           ELSE IF Skip(f.method)
           THEN /\ Continue(rest)
                /\ UNCHANGED <<out, accumulated_instances, max_depth_reached>>
           ELSE /\ accumulated_instances' = Merged(f.method)
                /\ out' = Append(out, Node(f.depth, f.method, is_circular, f.relation))
                /\ IF is_circular \/ Cut(f.method)
                   THEN Continue(rest)
                   ELSE Continue(children \o rest)
                /\ UNCHANGED max_depth_reached
    /\ UNCHANGED <<store, policy, inv, site, resolved, final_endpoints, reports>>

\* the implementation part of one callee-loop iteration of _collect_tree_data
CollectImplementations ==
    /\ pc = "running" /\ inv.kind = "collect"
    /\ stack # <<>> /\ Head(stack).op = "impl"
    /\ \E f \in {Head(stack)} :
       \E rest \in {Tail(stack)} :
       \E implementations \in {FirstWords(CommaList(f.implementations))} :
       \E filtered_implementations \in {FilterAtSite(implementations)} :
       \E calls \in {ImplCalls(filtered_implementations, f.method, f.depth, f.visited)} :
           /\ site' = [callee |-> f.method, impl_classes |-> implementations,
                       accumulated |-> accumulated_instances,
                       filtered |-> filtered_implementations]
           /\ Continue(calls \o rest)
    /\ UNCHANGED <<store, policy, inv, out, accumulated_instances, max_depth_reached,
                   resolved, final_endpoints, reports>>

---------------------------------------------------------------------------
(* The two forward traversals as functions of their arguments: what one     *)
(* top-level call returns, computed by the recursion of the code.  A state  *)
(* t holds the nodes emitted so far, the accumulated instance set and the   *)
(* ceiling flag; args holds max_depth and follow_implementations.           *)

NoTree == [out |-> <<>>, accumulated_instances |-> AccNone, max_depth_reached |-> FALSE]

\* "if accumulated_instances is None: ... else: accumulated_instances.update(...)"
MergeInto(acc, method) ==
    IF acc = AccNone THEN _collect_created_instances(method)
    ELSE acc \cup _collect_created_instances(method)

\* "if accumulated_instances:" around the filter
FilterBy(acc, impl_classes) ==
    IF acc # AccNone /\ acc # {}
    THEN _filter_implementations_by_accumulated_instances(acc, impl_classes)
    ELSE impl_classes

Emit(t, node) == [t EXCEPT !.out = Append(@, node)]

RECURSIVE PrintedFrom(_, _, _, _, _)
RECURSIVE PrintedCallees(_, _, _, _, _)
RECURSIVE PrintedImpls(_, _, _, _, _, _)

\* the implementation part of one iteration of the callee loop
PrintedSite(t, callee_info, depth, visited, args) ==
    IF callee_info.implementations # <<>> /\ args.follow_implementations
       /\ ~should_exclude_children(callee_info.method)
    THEN PrintedImpls(t, FilterBy(t.accumulated_instances,
                                  FirstWords(CommaList(callee_info.implementations))),
                      callee_info.method, depth, visited, args)
    ELSE t

\* _print_tree_recursive(method, depth, max_depth, visited, ...)
PrintedFrom(t, method, depth, visited, args) ==
    IF depth > args.max_depth THEN [t EXCEPT !.max_depth_reached = TRUE]
    ELSE IF Skip(method) THEN t
    ELSE IF IsCircular(method, visited) THEN Emit(t, Node(depth, method, TRUE, ""))
    ELSE LET here == [Emit(t, Node(depth, method, FALSE, "")) EXCEPT
                         !.accumulated_instances = MergeInto(@, method)]
         IN  IF Cut(method) THEN here
             ELSE PrintedCallees(here, Callees(method), depth, VisitedAdd(visited, method),
                                 args)

\* the callee loop
PrintedCallees(t, callees, depth, visited, args) ==
    IF callees = <<>> THEN t
    ELSE IF ~should_include(Head(callees).method)
    THEN PrintedCallees(t, Tail(callees), depth, visited, args)
    ELSE PrintedCallees(
             PrintedSite(PrintedFrom(t, Head(callees).method, depth + 1, visited, args),
                         Head(callees), depth, visited, args),
             Tail(callees), depth, visited, args)

\* the loop over the filtered implementation classes
PrintedImpls(t, impl_classes, callee, depth, visited, args) ==
    IF impl_classes = <<>> THEN t
    ELSE LET impl_method == _find_implementation_method(callee, Head(impl_classes))
         IN  PrintedImpls(IF impl_method # None /\ impl_method # <<>>
                             /\ should_include(impl_method)
                          THEN PrintedFrom(t, impl_method, depth + 1, visited, args)
                          ELSE t,
                          Tail(impl_classes), callee, depth, visited, args)

RECURSIVE CollectedFrom(_, _, _, _, _, _)
RECURSIVE CollectedCallees(_, _, _, _, _)
RECURSIVE CollectedImpls(_, _, _, _, _, _)

\* the implementation part of one iteration of the callee loop
CollectedSite(t, callee_info, depth, visited_copy, args) ==
    IF args.follow_implementations /\ callee_info.implementations # <<>>
    THEN CollectedImpls(t, FilterBy(t.accumulated_instances,
                                    FirstWords(CommaList(callee_info.implementations))),
                        callee_info.method, depth, visited_copy, args)
    ELSE t

\* _collect_tree_data(root_method, max_depth, ..., visited, depth, parent_relation, ...)
CollectedFrom(t, root_method, depth, visited, parent_relation, args) ==
    IF depth > args.max_depth THEN [t EXCEPT !.max_depth_reached = TRUE]
    ELSE IF Skip(root_method) THEN t
    ELSE LET is_circular == IsCircular(root_method, visited)
             here == [Emit(t, Node(depth, root_method, is_circular, parent_relation))
                         EXCEPT !.accumulated_instances = MergeInto(@, root_method)]
         IN  IF is_circular \/ Cut(root_method) THEN here
             ELSE CollectedCallees(here, Callees(root_method), depth,
                                   VisitedAdd(visited, root_method), args)

\* the callee loop
CollectedCallees(t, callees, depth, visited_copy, args) ==
    IF callees = <<>> THEN t
    ELSE IF ~should_include(Head(callees).method)
    THEN CollectedCallees(t, Tail(callees), depth, visited_copy, args)
    ELSE LET callee_info == Head(callees)
             relation == Relation(callee_info)
         IN  CollectedCallees(
                 CollectedSite(CollectedFrom(t, callee_info.method, depth + 1, visited_copy,
                                             relation, args),
                               callee_info, depth, visited_copy, args),
                 Tail(callees), depth, visited_copy, args)

\* the loop over the filtered implementation classes
CollectedImpls(t, impl_classes, callee, depth, visited_copy, args) ==
    IF impl_classes = <<>> THEN t
    ELSE LET impl_method == _find_implementation_method(callee, Head(impl_classes))
         IN  CollectedImpls(IF impl_method # None /\ impl_method # <<>>
                               /\ should_include(impl_method)
                            THEN CollectedFrom(t, impl_method, depth + 1, visited_copy,
                                               "implementation_candidate", args)
                            ELSE t,
                            Tail(impl_classes), callee, depth, visited_copy, args)

\* what print_forward_tree(root_method, max_depth, follow_implementations) prints,
\* with the set and the flag it ends with
PrintedTree(root_method, max_depth, follow_implementations) ==
    PrintedFrom(NoTree, root_method, 0, {},
                [max_depth |-> max_depth,
                 follow_implementations |-> follow_implementations])

\* what _collect_tree_data(entry_point, max_depth, follow_implementations) returns
CollectedTree(entry_point, max_depth, follow_implementations) ==
    CollectedFrom(NoTree, entry_point, 0, {}, "",
                  [max_depth |-> max_depth,
                   follow_implementations |-> follow_implementations])

---------------------------------------------------------------------------
(* Reverse traversal: print_reverse_tree and _print_reverse_tree_recursive *)

\* self.reverse_calls.get(method, [])
Callers(method) == Get(reverse_calls, method, <<>>)

\* "if not callers and follow_overrides: parent_methods = ..."
Pivots(method) == _find_parent_methods(method)

\* "not callers"
NoCallers(callers) == callers = <<>>

\* one recursive call per listed method, each with visited.copy()
ReverseCalls(methods, depth, visited) ==
    [i \in 1..Len(methods) |-> Frame("call", methods[i], depth, visited, "", <<>>)]

print_reverse_tree(target_method, max_depth, follow_overrides) ==
    /\ pc \in {"idle", "done"}
    /\ inv' = [NoInv EXCEPT !.kind = "reverse", !.root_method = target_method,
                            !.max_depth = max_depth,
                            !.follow_overrides = follow_overrides]
    /\ stack' = <<Frame("call", target_method, 0, {}, "", <<>>)>>
    /\ out' = <<>>
    /\ accumulated_instances' = AccNone
    /\ max_depth_reached' = FALSE
    /\ site' = NoSite
    /\ final_endpoints' = {}
    /\ pc' = "running"
    /\ UNCHANGED <<store, policy, resolved, reports>>

\* one activation of _print_reverse_tree_recursive, up to its loop
_print_reverse_tree_recursive ==
    /\ pc = "running" /\ inv.kind = "reverse"
    /\ stack # <<>>
    /\ \E f \in {Head(stack)} :
       \E rest \in {Tail(stack)} :
       \E visited \in {VisitedAdd(f.visited, f.method)} :
       \E callers \in {Callers(f.method)} :
       \E parent_methods \in {Pivots(f.method)} :
           IF AboveCeiling(f.depth)
           THEN /\ max_depth_reached' = TRUE
                /\ Continue(rest)
                /\ UNCHANGED <<out, final_endpoints>>
           ELSE IF Skip(f.method)
           THEN /\ Continue(rest)
                /\ UNCHANGED <<out, final_endpoints, max_depth_reached>>
           ELSE IF IsCircular(f.method, f.visited)
           THEN /\ out' = Append(out, Node(f.depth, f.method, TRUE, ""))
                /\ Continue(rest)
                /\ UNCHANGED <<final_endpoints, max_depth_reached>>
           ELSE /\ out' = Append(out, Node(f.depth, f.method, FALSE, ""))
                /\ IF NoCallers(callers) /\ inv.follow_overrides
                   THEN IF parent_methods # <<>>
                        THEN /\ Continue(ReverseCalls(parent_methods, f.depth, visited)
                                         \o rest)
                             /\ UNCHANGED final_endpoints
                        ELSE /\ final_endpoints' = final_endpoints \cup {f.method}
                             /\ Continue(rest)
                   ELSE IF NoCallers(callers)
                   THEN /\ final_endpoints' = final_endpoints \cup {f.method}
                        /\ Continue(rest)
                   ELSE /\ Continue(ReverseCalls(callers, f.depth + 1, visited) \o rest)
                        /\ UNCHANGED final_endpoints
                /\ UNCHANGED max_depth_reached
    /\ UNCHANGED <<store, policy, inv, accumulated_instances, site, resolved, reports>>

\* The reverse traversal as a function of its arguments; a state t holds the
\* nodes emitted so far, the terminal set and the ceiling flag.
NoReverse == [out |-> <<>>, final_endpoints |-> {}, max_depth_reached |-> FALSE]

RECURSIVE ReversedFrom(_, _, _, _, _)
RECURSIVE ReversedEach(_, _, _, _, _)

\* _print_reverse_tree_recursive(method, depth, max_depth, visited, ...)
ReversedFrom(t, method, depth, visited, args) ==
    IF depth > args.max_depth THEN [t EXCEPT !.max_depth_reached = TRUE]
    ELSE IF Skip(method) THEN t
    ELSE IF IsCircular(method, visited) THEN Emit(t, Node(depth, method, TRUE, ""))
    ELSE LET here == Emit(t, Node(depth, method, FALSE, ""))
             callers == Callers(method)
             parent_methods == Pivots(method)
             terminal == [here EXCEPT !.final_endpoints = @ \cup {method}]
         IN  IF NoCallers(callers) /\ args.follow_overrides
             THEN IF parent_methods # <<>>
                  THEN ReversedEach(here, parent_methods, depth,
                                    VisitedAdd(visited, method), args)
                  ELSE terminal
             ELSE IF NoCallers(callers) THEN terminal
             ELSE ReversedEach(here, callers, depth + 1, VisitedAdd(visited, method), args)

\* the loops over the parent methods and over the callers
ReversedEach(t, methods, depth, visited, args) ==
    IF methods = <<>> THEN t
    ELSE ReversedEach(ReversedFrom(t, Head(methods), depth, visited, args),
                      Tail(methods), depth, visited, args)

\* what print_reverse_tree(target_method, max_depth, follow_overrides) prints
ReversedTree(target_method, max_depth, follow_overrides) ==
    ReversedFrom(NoReverse, target_method, 0, {},
                 [max_depth |-> max_depth, follow_overrides |-> follow_overrides])

---------------------------------------------------------------------------
(* helper/reverse_batch.py: the terminal methods of a reverse search,      *)
(* computed on the script's own tables.                                    *)

NoBatch == [reverse_calls |-> EmptyDict, methods_data |-> <<>>, class_data |-> EmptyDict]

RECURSIVE BatchCalls(_, _, _)
\* reverse_calls[callee_sig].append(signature) for the calls of one method
BatchCalls(rc, signature, calls) ==
    IF calls = <<>> THEN rc
    ELSE LET callee_sig == Head(calls).method
         IN  BatchCalls(IF callee_sig # <<>>
                        THEN Put(rc, callee_sig, Append(Get(rc, callee_sig, <<>>), signature))
                        ELSE rc,
                        signature, Tail(calls))

RECURSIVE BatchMethods(_, _)
BatchMethods(rc, methods_data) ==
    IF methods_data = <<>> THEN rc
    ELSE LET method_entry == Head(methods_data)
         IN  BatchMethods(IF method_entry.method # <<>>
                          THEN BatchCalls(rc, method_entry.method, method_entry.calls)
                          ELSE rc,
                          Tail(methods_data))

RECURSIVE BatchClasses(_, _)
BatchClasses(cd, classes) ==
    IF classes = <<>> THEN cd
    ELSE LET cls == Head(classes)
         IN  BatchClasses(IF cls.className # <<>>
                          THEN Put(cd, cls.className,
                                   [superClass |-> Field(cls, "superClass", <<>>),
                                    allInterfaces |-> Field(cls, "allInterfaces", <<>>)])
                          ELSE cd,
                          Tail(classes))

\* the tables main() builds from the document
BatchLoad(data) ==
    [reverse_calls |-> BatchMethods(EmptyDict, data.methods),
     methods_data |-> data.methods,
     class_data |-> BatchClasses(EmptyDict, data.classes)]

\* "for m in methods_data: if m.get("method") == sig"
InMethodsData(sig) == \E i \in 1..Len(batch.methods_data) : batch.methods_data[i].method = sig

find_parent_methods(method) ==
    IF ~Contains(method, HASH) THEN <<>>
    ELSE LET parts == split1(method, HASH)
             class_name == parts[1]
             method_part == parts[2]
             class_rec == Get(batch.class_data, class_name,
                              [superClass |-> <<>>, allInterfaces |-> <<>>])
             parent_method_sig == class_rec.superClass \o <<HASH>> \o method_part
             from_super == IF class_rec.superClass # <<>> /\ InMethodsData(parent_method_sig)
                           THEN <<parent_method_sig>> ELSE <<>>
             sigs == [i \in 1..Len(class_rec.allInterfaces) |->
                         class_rec.allInterfaces[i] \o <<HASH>> \o method_part]
         IN  from_super \o SelectSeq(sigs, InMethodsData)

RECURSIVE _find_recursive(_, _, _, _, _)
RECURSIVE FindEach(_, _, _, _, _)

\* the for loops of _find_recursive: the calls are made one after the other on
\* the shared visited and final_endpoints sets
FindEach(found, methods, depth, max_depth, follow_overrides) ==
    IF methods = <<>> THEN found
    ELSE FindEach(_find_recursive(found, Head(methods), depth, max_depth, follow_overrides),
                  Tail(methods), depth, max_depth, follow_overrides)

\* found holds the two sets of the enclosing find_final_endpoints
_find_recursive(found, method, depth, max_depth, follow_overrides) ==
    IF depth > max_depth THEN found
    ELSE IF method \in found.visited THEN found
    ELSE LET seen == [found EXCEPT !.visited = @ \cup {method}]
             callers == Get(batch.reverse_calls, method, <<>>)
             parent_methods == find_parent_methods(method)
             final == [seen EXCEPT !.final_endpoints = @ \cup {method}]
         IN  IF callers = <<>> /\ follow_overrides
             THEN IF parent_methods # <<>>
                  THEN FindEach(seen, parent_methods, depth, max_depth, follow_overrides)
                  ELSE final
             ELSE IF callers = <<>> THEN final
             ELSE FindEach(seen, callers, depth + 1, max_depth, follow_overrides)

\* one call of find_final_endpoints; its result is left in final_endpoints
find_final_endpoints(target_method, max_depth, follow_overrides) ==
    /\ pc \in {"idle", "done"}
    /\ inv' = [NoInv EXCEPT !.kind = "batch", !.root_method = target_method,
                            !.max_depth = max_depth,
                            !.follow_overrides = follow_overrides]
    /\ final_endpoints' =
           _find_recursive([visited |-> {}, final_endpoints |-> {}], target_method, 0,
                           max_depth, follow_overrides).final_endpoints
    /\ stack' = <<>>
    /\ out' = <<>>
    /\ accumulated_instances' = AccNone
    /\ max_depth_reached' = FALSE
    /\ site' = NoSite
    /\ pc' = "done"
    /\ UNCHANGED <<store, policy, resolved, reports>>

---------------------------------------------------------------------------
(* Input documents.  Every class has one method "m"; a class that does not *)
(* own "m" has a method "n" instead, so that its ancestors are still       *)
(* recorded.                                                               *)

MaxEdges == 4
MaxExtra == 1
MaxDepth == 2
MaxFairEdges == 3
BigDepth == 10

ClassOrder == <<"R", "A", "B", "C">>
Classes == Range(ClassOrder)
M(c) == Sig(c, "m")

NoStrings == [c \in Classes |-> <<>>]

\* a comma separated string of class names
Csv2(a, b) == <<a, COMMA, SPACE, b>>

\* the calls of c's method: its edges in ClassOrder, the edge to impl_target
\* carrying the implementation candidates
CallsOf(c, edges, flagged, impl_target, implementations) ==
    LET targets == SelectSeq(ClassOrder, LAMBDA t : <<c, t>> \in edges)
    IN  [i \in 1..Len(targets) |->
            [method |-> M(targets[i]),
             isParentMethod |-> <<c, targets[i]>> \in flagged,
             implementations |-> IF targets[i] = impl_target /\ c = "R"
                                 THEN implementations ELSE <<>>]]

\* the edges of a document that carry isParentMethod
Flagged(p) == IF "flagged" \in DOMAIN p THEN p.flagged ELSE {}

MethodRecord(c, p) ==
    IF c \in p.owns
    THEN [method |-> M(c), class |-> Str(c), parentClasses |-> p.parents[c],
          createdInstances |-> p.created[c],
          calls |-> CallsOf(c, p.edges, Flagged(p), "C", p.implementations),
          calledBy |-> <<>>]
    ELSE [method |-> Sig(c, "n"), class |-> Str(c), parentClasses |-> p.parents[c],
          createdInstances |-> <<>>, calls |-> <<>>, calledBy |-> <<>>]

Document(p) ==
    [methods |-> [i \in 1..Len(ClassOrder) |-> MethodRecord(ClassOrder[i], p)],
     classes |-> p.classes,
     interfaces |-> p.interfaces]

Params(edges, implementations, owns, parents, created, classes, interfaces, incl, excl) ==
    [edges |-> edges, implementations |-> implementations, owns |-> owns,
     parents |-> parents, created |-> created, classes |-> classes,
     interfaces |-> interfaces, incl |-> incl, excl |-> excl]

\* plain call graphs
EdgeUniverse ==
    {<<"R", "A">>, <<"R", "B">>, <<"R", "C">>, <<"A", "B">>, <<"A", "C">>, <<"B", "C">>,
     <<"B", "A">>, <<"C", "A">>, <<"A", "R">>, <<"C", "C">>}

GraphPolicies ==
    {<<{}, {}>>, <<{M("A")}, {}>>, <<{}, {M("A")}>>, <<{Str("B")}, {}>>, <<{}, {Str("B")}>>}

GraphInputs ==
    {Params(E, <<>>, Classes, NoStrings, NoStrings, <<>>, <<>>, pol[1], pol[2]) :
        E \in {E \in SUBSET EdgeUniverse : Cardinality(E) <= MaxEdges},
        pol \in GraphPolicies}

\* one polymorphic call site R#m -> C#m
ImplStrings ==
    {<<"A", COMMA, "B">>, <<"B", SPACE, COMMA, SPACE, "A", SPACE, "x">>, <<"A">>}

ExtraEdges == {<<"R", "A">>, <<"A", "R">>, <<"B", "R">>, <<"A", "B">>, <<"C", "B">>}

SiteEdges ==
    {{<<"R", "C">>} \cup X : X \in {X \in SUBSET ExtraEdges : Cardinality(X) <= MaxExtra}}

HierarchyInputs ==
    {Params({<<"R", "C">>}, impls, owns,
            [c \in Classes |-> IF c = "A" THEN pa ELSE IF c = "B" THEN pb ELSE <<>>],
            NoStrings, <<>>, ifaces, {}, {}) :
        impls \in ImplStrings,
        owns \in {Classes, Classes \ {"A"}, Classes \ {"B"}, Classes \ {"A", "B"}},
        pa \in {<<>>, Str("B"), Str("C")},
        pb \in {<<>>, Str("C"), Csv2("C", "A")},
        ifaces \in {<<>>, <<Str("C")>>}}

CreatedChoices ==
    {[created |-> NoStrings, classes |-> <<>>]}
    \cup {[created |-> [c \in Classes |-> IF c = who THEN <<Str(what)>> ELSE <<>>],
           classes |-> <<>>] : who \in {"R", "A", "C"}, what \in {"B"}}
    \cup {[created |-> [c \in Classes |-> IF c = "R" THEN <<Str("R")>> ELSE <<>>],
           classes |-> <<>>],
          [created |-> NoStrings,
           classes |-> <<[className |-> Str("R"), fieldInitializers |-> <<Str("A")>>]>>]}

InstanceInputs ==
    {Params(E, impls, Classes, NoStrings, cc.created, cc.classes, <<>>, {}, {}) :
        E \in SiteEdges, impls \in ImplStrings, cc \in CreatedChoices}

SitePolicies ==
    {<<{M("B")}, {}>>, <<{Str("A")}, {}>>, <<{}, {M("C")}>>, <<{}, {M("A")}>>,
     <<{M("C")}, {}>>}

SitePolicyInputs ==
    {Params(E, impls, Classes, NoStrings, NoStrings, <<>>, <<>>, pol[1], pol[2]) :
        E \in SiteEdges, impls \in ImplStrings, pol \in SitePolicies}

Inputs == GraphInputs \cup HierarchyInputs \cup InstanceInputs \cup SitePolicyInputs

\* call sites whose edges may be flagged as calls of an ancestor's method
FlaggedInputs ==
    {Params(E, impls, Classes, NoStrings, NoStrings, <<>>, <<>>, {}, {})
        @@ [flagged |-> F] :
        E \in SiteEdges, impls \in {<<>>, <<"A", COMMA, "B">>},
        F \in {{}, {<<"R", "C">>}, {<<"R", "A">>}, {<<"A", "B">>}}}

\* a call site reached after a chain R#m -> A#m -> B#m whose far end may
\* instantiate a candidate
DeepInstanceInputs ==
    {Params({<<"R", "A">>, <<"A", "B">>, <<"R", "C">>}, <<"A", COMMA, "B">>, Classes,
            NoStrings, [c \in Classes |-> IF c = who THEN <<Str(what)>> ELSE <<>>],
            <<>>, <<>>, {}, {}) :
        who \in {"A", "B"}, what \in {"A", "B"}}

TreeInputs == FlaggedInputs \cup DeepInstanceInputs \cup HierarchyInputs
                  \cup SitePolicyInputs

Roots == {M("R"), M("A")}
Depths == (0..MaxDepth) \cup {BigDepth}

---------------------------------------------------------------------------
(* Specification *)

\* the constructor has returned
NoDocument == [methods |-> <<>>, classes |-> <<>>, interfaces |-> <<>>, read |-> 0]

\* no top-level call has been made
Idle ==
    /\ pc = "idle"
    /\ inv = NoInv
    /\ stack = <<>>
    /\ out = <<>>
    /\ accumulated_instances = AccNone
    /\ max_depth_reached = FALSE
    /\ site = NoSite
    /\ resolved = NoResolved
    /\ final_endpoints = {}
    /\ classified = NoClassified
    /\ entry_points = <<>>
    /\ unread = NoDocument

\* the visualizer constructed from a document, its rule sets as load_rules
\* left them
InitFrom(inputs) ==
    /\ \E p \in inputs :
          /\ _load_json_data(Document(p))
          /\ include_exclusions = p.incl
          /\ exclude_children = p.excl
    /\ rule_file = <<>>
    /\ line_num = 0
    /\ batch = NoBatch
    /\ Idle

Init == InitFrom(Inputs)

Next ==
    \/ \E root \in Roots, d \in Depths, follow \in BOOLEAN :
          print_forward_tree(root, d, follow)
    \/ \E root \in Roots, d \in Depths, follow \in BOOLEAN :
          export_tree_to_csv(root, d, follow)
    \/ _print_tree_recursive
    \/ PrintImplementations
    \/ _collect_tree_data
    \/ CollectImplementations

Spec == Init /\ [][Next]_vars

\* the same program on the documents of TreeInputs
TreeSpec == InitFrom(TreeInputs) /\ [][Next]_vars

\* the traversal runs to completion once started: it is synchronous code
Step ==
    \/ _print_tree_recursive
    \/ PrintImplementations
    \/ _collect_tree_data
    \/ CollectImplementations

\* one top-level call per behaviour, run to completion
NextOnce ==
    \/ /\ pc = "idle"
       /\ \E root \in Roots, d \in Depths, follow \in BOOLEAN :
             \/ print_forward_tree(root, d, follow)
             \/ export_tree_to_csv(root, d, follow)
    \/ Step

\* the stores of the termination check: call graphs of at most MaxFairEdges
\* edges, cyclic ones among them, with or without a cut rule, and call sites
\* with two implementation candidates, whose resolved methods may call back
FairInputs ==
    {p \in GraphInputs :
        Cardinality(p.edges) <= MaxFairEdges /\ p.incl = {} /\ p.excl \subseteq {M("A")}}
    \cup {p \in InstanceInputs \cup SitePolicyInputs : Len(p.implementations) = 3}

FairSpec == InitFrom(FairInputs) /\ [][NextOnce]_vars /\ WF_vars(Step)

---------------------------------------------------------------------------
(* The three traversals on documents that also record the callers: the     *)
(* calledBy list of a method names the methods whose class has an edge to  *)
(* it, also when the document has no record of the caller.                 *)

MaxRevEdges == 3

RevEdgeUniverse ==
    {<<"R", "A">>, <<"R", "B">>, <<"A", "B">>, <<"A", "C">>, <<"B", "C">>, <<"C", "B">>,
     <<"C", "C">>}

\* ancestor lists: none, one ancestor, two ancestors, and lists that close a
\* cycle of ancestors
RevParents ==
    {NoStrings,
     [NoStrings EXCEPT !["A"] = Str("B")],
     [NoStrings EXCEPT !["C"] = Str("B")],
     [NoStrings EXCEPT !["C"] = Csv2("A", "B")],
     [NoStrings EXCEPT !["B"] = Str("C"), !["C"] = Str("B")],
     [NoStrings EXCEPT !["C"] = Str("C")]}

RevPolicies == {<<{M("A")}, {}>>, <<{Str("B")}, {}>>, <<{}, {M("A")}>>}

RevGraphs == {E \in SUBSET RevEdgeUniverse : Cardinality(E) <= MaxRevEdges}

\* graphs in which B#m calls both C#m and its caller A#m, so that B#m is
\* reached from C#m by a longer path before it is reached by a shorter one
DetourGraphs ==
    {{<<"A", "C">>, <<"B", "C">>, <<"B", "A">>} \cup X :
        X \in SUBSET {<<"R", "B">>, <<"R", "A">>, <<"C", "B">>}}

ReverseInputs ==
    {Params(E, <<>>, owns, parents, NoStrings, <<>>, <<>>, {}, {}) :
        E \in RevGraphs, owns \in {Classes, Classes \ {"B"}}, parents \in RevParents}
    \cup {Params(E, <<>>, Classes, NoStrings, NoStrings, <<>>, <<>>, pol[1], pol[2]) :
              E \in RevGraphs, pol \in RevPolicies}
    \cup {p \in InstanceInputs : p.implementations = <<"A", COMMA, "B">>}
    \cup {p \in HierarchyInputs :
              p.implementations = <<"A", COMMA, "B">> /\ p.interfaces = <<>>}
    \cup {Params(E, <<"A", COMMA, "B">>, owns, NoStrings, NoStrings, <<>>, <<>>, {}, {}) :
              E \in SiteEdges, owns \in {Classes \ {"A"}, Classes \ {"B"}}}
    \cup {Params(E, <<>>, Classes, NoStrings, NoStrings, <<>>, <<>>, {}, {}) :
              E \in DetourGraphs}

\* the callers of c's method, in ClassOrder
CalledBy(c, p) ==
    LET callers == SelectSeq(ClassOrder, LAMBDA t : <<t, c>> \in p.edges)
    IN  IF c \in p.owns THEN [i \in 1..Len(callers) |-> M(callers[i])] ELSE <<>>

\* the classes section: the first listed ancestor is the superclass, the
\* others are interfaces
ClassRecords(p) ==
    LET listed == SelectSeq(ClassOrder, LAMBDA c : p.parents[c] # <<>>)
    IN  [i \in 1..Len(listed) |->
            [className |-> Str(listed[i]),
             superClass |-> Head(CommaList(p.parents[listed[i]])),
             allInterfaces |-> Tail(CommaList(p.parents[listed[i]])),
             fieldInitializers |-> <<>>]]

ReverseDocument(p) ==
    [Document(p) EXCEPT
        !.methods =
            [i \in 1..Len(ClassOrder) |->
                [MethodRecord(ClassOrder[i], p) EXCEPT
                    !.calledBy = CalledBy(ClassOrder[i], p)]],
        !.classes = p.classes \o ClassRecords(p)]

ReverseTargets == {M("C"), M("B")}

ReverseInit ==
    /\ \E p \in ReverseInputs :
          /\ _load_json_data(ReverseDocument(p))
          /\ batch = BatchLoad(ReverseDocument(p))
          /\ include_exclusions = p.incl
          /\ exclude_children = p.excl
    /\ rule_file = <<>>
    /\ line_num = 0
    /\ Idle

ReverseStep ==
    \/ Step
    \/ _print_reverse_tree_recursive

ReverseNext ==
    \/ \E target \in ReverseTargets, d \in Depths, follow \in BOOLEAN :
          print_reverse_tree(target, d, follow)
    \/ \E target \in ReverseTargets, d \in Depths, follow \in BOOLEAN :
          find_final_endpoints(target, d, follow)
    \/ \E root \in Roots, d \in Depths, follow \in BOOLEAN :
          print_forward_tree(root, d, follow)
    \/ \E root \in Roots, d \in Depths, follow \in BOOLEAN :
          export_tree_to_csv(root, d, follow)
    \/ ReverseStep

ReverseSpec == ReverseInit /\ [][ReverseNext]_vars

MaxFairRevEdges == 2

\* the stores of the termination check of the reverse traversal: caller
\* graphs of at most MaxFairRevEdges edges, cyclic ones among them, under
\* every ancestor list, those that close a cycle of ancestors included
FairReverseInputs ==
    {p \in ReverseInputs :
        /\ Cardinality(p.edges) <= MaxFairRevEdges
        /\ p.implementations = <<>> /\ p.incl = {} /\ p.excl = {}}

FairReverseInit ==
    /\ \E p \in FairReverseInputs :
          /\ _load_json_data(ReverseDocument(p))
          /\ batch = BatchLoad(ReverseDocument(p))
          /\ include_exclusions = p.incl
          /\ exclude_children = p.excl
    /\ rule_file = <<>>
    /\ line_num = 0
    /\ Idle

\* one reverse traversal per behaviour, run to completion
ReverseOnce ==
    \/ /\ pc = "idle"
       /\ \E target \in ReverseTargets, d \in Depths, follow \in BOOLEAN :
             print_reverse_tree(target, d, follow)
    \/ _print_reverse_tree_recursive

FairReverseSpec ==
    FairReverseInit /\ [][ReverseOnce]_vars /\ WF_vars(_print_reverse_tree_recursive)

---------------------------------------------------------------------------
(* The exclusion policy on its own: ExclusionRuleManager reading a rule    *)
(* file line by line.                                                      *)

MaxRules == 3

RuleTargets == {Str("X"), Sig("X", "z"), Str("z"), Sig("Y", "w")}

\* well-formed lines of both modes, and the lines load_rules skips or trims
RuleLines ==
    {t \o <<TAB, mode>> : t \in RuleTargets, mode \in {"I", "E"}}
    \cup {<<"X", TAB, "i">>,
          <<"z", TAB, "Q">>,
          <<>>,
          <<"X">>,
          <<HASH, "z", TAB, "I">>,
          <<TAB, "I">>,
          <<SPACE, "Y", SPACE, TAB, SPACE, "E", SPACE>>,
          <<"X", TAB, "I", TAB, "E">>}

RECURSIVE RuleFiles(_)
\* the files of at most n lines
RuleFiles(n) ==
    IF n = 0 THEN {<<>>}
    ELSE LET shorter == RuleFiles(n - 1)
         IN  shorter \cup {Append(file, line) : file \in shorter, line \in RuleLines}

\* ExclusionRuleManager.__init__ up to the call of load_rules
PolicyInit ==
    /\ _load_json_data([methods |-> <<>>, classes |-> <<>>, interfaces |-> <<>>])
    /\ include_exclusions = {}
    /\ exclude_children = {}
    /\ rule_file \in RuleFiles(MaxRules)
    /\ line_num = 0
    /\ batch = NoBatch
    /\ Idle

PolicyNext == load_rules

PolicySpec == PolicyInit /\ [][PolicyNext]_vars

\* the signatures the policy is asked about: methods of two classes, a bare
\* class name, a bare member-part, and signatures with an empty side
PolicySigs ==
    {Sig(c, m) : c \in {"X", "Y"}, m \in {"z", "w"}}
    \cup {Str("X"), Str("z"), <<"X", HASH>>, <<HASH, "z">>}

---------------------------------------------------------------------------
(* The hierarchy resolver on its own: _find_implementation_method called   *)
(* on a store of four classes.  A class that does not own "m" owns "n".    *)

MaxCalls == 2

ResolverClasses == <<"I", "Foo", "Bar", "Base">>

\* parentClasses strings: none, one ancestor, an interface and a superclass in
\* both orders, ancestor lists that close a cycle, and a class that lists
\* itself
ParentChoices ==
    [I    |-> {<<>>, Str("Base")},
     Foo  |-> {<<>>, Str("I"), Str("Base"), Csv2("I", "Base"), Str("Foo")},
     Bar  |-> {<<>>, Str("Base"), Str("Foo"), Csv2("I", "Base"), Csv2("Base", "I")},
     Base |-> {<<>>, Str("I"), Str("Bar")}]

ResolverRecord(c, owns, parents) ==
    [method |-> Sig(c, IF c \in owns THEN "m" ELSE "n"), class |-> Str(c),
     parentClasses |-> parents[c], createdInstances |-> <<>>, calls |-> <<>>,
     calledBy |-> <<>>]

ResolverDocuments ==
    {[methods |-> [i \in 1..Len(ResolverClasses) |->
                      ResolverRecord(ResolverClasses[i], owns, parents)],
      classes |-> <<>>,
      interfaces |-> interfaces] :
        owns \in SUBSET Range(ResolverClasses),
        parents \in [I : ParentChoices.I, Foo : ParentChoices.Foo,
                     Bar : ParentChoices.Bar, Base : ParentChoices.Base],
        interfaces \in {<<>>, <<Str("I")>>}}

AbstractMethods == {Sig("I", "m"), Sig("I", "n"), Str("m")}

CandidateClasses == {Str(c) : c \in Range(ResolverClasses)} \cup {<<>>, Str("Zed")}

ResolveInit ==
    /\ \E data \in ResolverDocuments : _load_json_data(data)
    /\ include_exclusions = {}
    /\ exclude_children = {}
    /\ rule_file = <<>>
    /\ line_num = 0
    /\ batch = NoBatch
    /\ Idle

\* one call of the resolver
Resolve(abstract_method, impl_class) ==
    /\ resolved.calls < MaxCalls
    /\ resolved' = [abstract_method |-> abstract_method, impl_class |-> impl_class,
                    result |-> _find_implementation_method(abstract_method, impl_class),
                    calls |-> resolved.calls + 1]
    /\ UNCHANGED <<store, policy, pc, inv, stack, out, accumulated_instances,
                   max_depth_reached, site, final_endpoints, reports>>

ResolveNext ==
    \E abstract_method \in AbstractMethods, impl_class \in CandidateClasses :
        Resolve(abstract_method, impl_class)

ResolveSpec == ResolveInit /\ [][ResolveNext]_vars

---------------------------------------------------------------------------
(* The constructor on its own: _load_json_data reading the method records  *)
(* of a document one by one, then its classes and interfaces sections.     *)
(* Several records belong to one class and each has its own parentClasses. *)

MaxRecords == 3

RecordClasses == <<"A", "B">>

\* parentClasses strings: none, one name, two names in both orders, a name
\* repeated, and a list that yields no name
ParentStrings ==
    {<<>>, Str("P"), Str("Q"), Csv2("P", "Q"), Csv2("Q", "P"), Csv2("P", "P"),
     <<SPACE, COMMA, SPACE>>}

\* the i-th record: method m<i> of class c
LoadRecord(i, c, parents) ==
    [method |-> Sig(c, <<"m1", "m2", "m3", "m4">>[i]), class |-> Str(c),
     parentClasses |-> parents, createdInstances |-> <<>>, calls |-> <<>>,
     calledBy |-> <<>>]

RECURSIVE LoadDocuments(_)
\* the method lists of at most n records
LoadDocuments(n) ==
    IF n = 0 THEN {<<>>}
    ELSE LET shorter == LoadDocuments(n - 1)
         IN  shorter \cup {Append(d, LoadRecord(Len(d) + 1, c, parents)) :
                              d \in {x \in shorter : Len(x) = n - 1},
                              c \in Range(RecordClasses), parents \in ParentStrings}

\* __init__ up to the call of _load_json_data
LoadInit ==
    /\ method_info = <<>>
    /\ class_info = EmptyDict
    /\ forward_calls = EmptyDict
    /\ reverse_calls = EmptyDict
    /\ class_data = EmptyDict
    /\ interface_data = {}
    /\ include_exclusions = {}
    /\ exclude_children = {}
    /\ rule_file = <<>>
    /\ line_num = 0
    /\ batch = NoBatch
    /\ \E methods \in LoadDocuments(MaxRecords) :
          unread = [methods |-> methods, classes |-> <<>>, interfaces |-> <<>>, read |-> 0]
    /\ pc = "loading"
    /\ inv = NoInv
    /\ stack = <<>>
    /\ out = <<>>
    /\ accumulated_instances = AccNone
    /\ max_depth_reached = FALSE
    /\ site = NoSite
    /\ resolved = NoResolved
    /\ final_endpoints = {}
    /\ classified = NoClassified
    /\ entry_points = <<>>

\* one iteration of the loop over data["methods"]
ReadMethod ==
    /\ pc = "loading"
    /\ unread.read < Len(unread.methods)
    /\ \E st \in {LoadMethod([method_info |-> method_info, class_info |-> class_info,
                              forward_calls |-> forward_calls,
                              reverse_calls |-> reverse_calls],
                             unread.methods[unread.read + 1])} :
          /\ method_info' = st.method_info
          /\ class_info' = st.class_info
          /\ forward_calls' = st.forward_calls
          /\ reverse_calls' = st.reverse_calls
    /\ unread' = [unread EXCEPT !.read = @ + 1]
    /\ UNCHANGED <<class_data, interface_data, policy, pc, inv, stack, out,
                   accumulated_instances, max_depth_reached, site, resolved,
                   final_endpoints, classified, entry_points, batch>>

\* the classes and interfaces sections, after which the constructor returns
ReadSections ==
    /\ pc = "loading"
    /\ unread.read = Len(unread.methods)
    /\ class_data' = LoadClasses(class_data, unread.classes)
    /\ interface_data' = LoadInterfaces(unread.interfaces)
    /\ pc' = "idle"
    /\ UNCHANGED <<method_info, class_info, forward_calls, reverse_calls, policy, inv,
                   stack, out, accumulated_instances, max_depth_reached, site, resolved,
                   final_endpoints, reports>>

LoadNext ==
    \/ ReadMethod
    \/ ReadSections

LoadSpec == LoadInit /\ [][LoadNext]_vars

---------------------------------------------------------------------------
(* Entry-point classification on its own: _determine_entry_type and the    *)
(* two listings called on a store of three methods A#m, B#m and Main#m,    *)
(* where B may be an ancestor of the other two classes.                    *)

MaxAnnotations == 2

EntryClasses == {"A", "B", "Main"}

AnnotationNames ==
    {<<"Test">>, <<"Get", "Mapping">>, <<"Web", "Servlet">>, <<"Post", "Construct">>}

RECURSIVE AnnotationLists(_)
\* the lists of at most n different annotation names
AnnotationLists(n) ==
    IF n = 0 THEN {<<>>}
    ELSE LET shorter == AnnotationLists(n - 1)
         IN  shorter \cup {Append(l, a) : l \in shorter, a \in AnnotationNames}

DistinctLists(n) ==
    {l \in AnnotationLists(n) : \A i, j \in 1..Len(l) : l[i] = l[j] => i = j}

\* the fields of a method record that the classification reads
Shape(annotations, classAnnotations, isStatic, visibility, entryType, flag, parents) ==
    [annotations |-> annotations, classAnnotations |-> classAnnotations,
     isStatic |-> isStatic, visibility |-> visibility, entryType |-> entryType,
     isEntryPoint |-> flag, parentClasses |-> parents]

\* a method of every annotation list, raw entry type and visibility
RichShapes ==
    {Shape(a, ca, FALSE, v, t, TRUE, p) :
        a \in DistinctLists(MaxAnnotations),
        ca \in {<<>>, <<<<"Rest", "Controller">>>>},
        v \in {"public", "private"},
        t \in {"", "HTTP", "Test"},
        p \in {<<>>, Str("B")}}

\* a method of a class named Main, static or not, tested or not
MainShapes ==
    {Shape(a, <<>>, st, "public", t, TRUE, p) :
        a \in {<<>>, <<<<"Test">>>>},
        st \in BOOLEAN,
        t \in {"", "Test", "Bean"},
        p \in {<<>>, Str("B")}}

\* an ancestor declaration
AncestorShapes ==
    {Shape(a, <<>>, FALSE, "public", "", TRUE, <<>>) :
        a \in {<<>>, <<<<"Get", "Mapping">>>>, <<<<"Post", "Construct">>>>}}

\* the methods of the listings: three categories, listed or not
ListShapes ==
    {Shape(a, <<>>, FALSE, v, "", e, <<>>) :
        a \in {<<>>, <<<<"Test">>>>, <<<<"Get", "Mapping">>>>},
        v \in {"public"},
        e \in BOOLEAN}

Orders ==
    {o \in [1..3 -> EntryClasses] : \A i, j \in 1..3 : o[i] = o[j] => i = j}

EntryParams(order, shapes, calls, interfaces) ==
    [order |-> order, shapes |-> shapes, calls |-> calls, interfaces |-> interfaces]

PlainShape == Shape(<<>>, <<>>, FALSE, "public", "", TRUE, <<>>)

ClassifyInputs ==
    {EntryParams(<<"A", "B", "Main">>, [A |-> a, B |-> b, Main |-> PlainShape],
                 FALSE, <<>>) :
        a \in RichShapes, b \in AncestorShapes}
    \cup {EntryParams(<<"A", "B", "Main">>, [A |-> PlainShape, B |-> b, Main |-> m],
                      FALSE, <<>>) :
              b \in AncestorShapes, m \in MainShapes}

ListInputs ==
    {EntryParams(o, [A |-> a, B |-> b, Main |-> m], c, i) :
        o \in Orders, a \in ListShapes, b \in ListShapes, m \in ListShapes,
        c \in BOOLEAN, i \in {<<>>, <<Str("B")>>}}

\* listings in which Main#m calls itself
SelfCallInputs ==
    {EntryParams(<<"A", "B", "Main">>, [A |-> a, B |-> b, Main |-> m], c, <<>>)
        @@ [self |-> TRUE] :
        a \in ListShapes, b \in ListShapes, m \in ListShapes, c \in BOOLEAN}

EntryInputs == ClassifyInputs \cup ListInputs \cup SelfCallInputs

SelfCall(p) == "self" \in DOMAIN p

\* the record of c's method; A#m calls B#m when p.calls, Main#m calls itself
\* when SelfCall(p)
EntryRecord(c, p) ==
    [method |-> M(c), class |-> Str(c),
     parentClasses |-> p.shapes[c].parentClasses,
     createdInstances |-> <<>>,
     calls |-> IF c = "A" /\ p.calls
               THEN <<[method |-> M("B"), isParentMethod |-> FALSE,
                       implementations |-> <<>>]>>
               ELSE IF c = "Main" /\ SelfCall(p)
               THEN <<[method |-> M("Main"), isParentMethod |-> FALSE,
                       implementations |-> <<>>]>>
               ELSE <<>>,
     calledBy |-> <<>>,
     visibility |-> p.shapes[c].visibility,
     isStatic |-> p.shapes[c].isStatic,
     isEntryPoint |-> p.shapes[c].isEntryPoint,
     entryType |-> p.shapes[c].entryType,
     annotations |-> p.shapes[c].annotations,
     classAnnotations |-> p.shapes[c].classAnnotations]

EntryDocument(p) ==
    [methods |-> [i \in 1..3 |-> EntryRecord(p.order[i], p)],
     classes |-> <<>>,
     interfaces |-> p.interfaces]

EntryInit ==
    /\ \E p \in EntryInputs : _load_json_data(EntryDocument(p))
    /\ include_exclusions = {}
    /\ exclude_children = {}
    /\ rule_file = <<>>
    /\ line_num = 0
    /\ batch = NoBatch
    /\ Idle

\* one call of _determine_entry_type on a method of the store
DetermineEntryType(method) ==
    /\ pc = "idle"
    /\ DictHas(method_info, method)
    /\ classified' = [method |-> method,
                      entry_type |-> _determine_entry_type(
                                         method, DictGet(method_info, method, NoInfo))]
    /\ inv' = [NoInv EXCEPT !.kind = "classify", !.root_method = method]
    /\ pc' = "done"
    /\ UNCHANGED <<store, policy, stack, out, accumulated_instances, max_depth_reached,
                   site, resolved, final_endpoints, entry_points, batch, unread>>

\* both listings, up to the sorted list they print
ListEntryPoints(kind, min_calls, strict) ==
    /\ pc = "idle"
    /\ entry_points' = SortByKey(EntryRows(min_calls, strict))
    /\ inv' = [NoInv EXCEPT !.kind = kind, !.min_calls = min_calls, !.strict = strict]
    /\ pc' = "done"
    /\ UNCHANGED <<store, policy, stack, out, accumulated_instances, max_depth_reached,
                   site, resolved, final_endpoints, classified, batch, unread>>

list_entry_points(min_calls, strict) == ListEntryPoints("list", min_calls, strict)

list_entry_points_tsv(min_calls, strict) == ListEntryPoints("tsv", min_calls, strict)

EntryNext ==
    \/ \E c \in EntryClasses : DetermineEntryType(M(c))
    \/ \E min_calls \in 0..1, strict \in BOOLEAN : list_entry_points(min_calls, strict)
    \/ \E min_calls \in 0..1, strict \in BOOLEAN : list_entry_points_tsv(min_calls, strict)

EntrySpec == EntryInit /\ [][EntryNext]_vars

---------------------------------------------------------------------------
(* The emitted tree, read off the output sequence: a node's ancestors are  *)
(* the nearest earlier nodes of each smaller depth.                        *)

SigUniverse == {M(c) : c \in Classes}

Edges(s) == Get(forward_calls, s, <<>>)
Targets(s) == {e.method : e \in Range(Edges(s))}

AncestorIdxs(i) ==
    {j \in 1..(i - 1) :
        /\ out[j].depth < out[i].depth
        /\ \A k \in (j + 1)..(i - 1) : out[k].depth > out[j].depth}

ChildIdxs(i) ==
    {k \in (i + 1)..Len(out) :
        /\ out[k].depth = out[i].depth + 1
        /\ \A l \in (i + 1)..(k - 1) : out[l].depth > out[i].depth}

AncestorSigs(i) == {out[j].method : j \in AncestorIdxs(i)}

Triples == [i \in 1..Len(out) |-> <<out[i].depth, out[i].method, out[i].is_circular>>]

Count(sig) == Cardinality({i \in 1..Len(out) : out[i].method = sig})

RECURSIVE ReachVia(_, _)
\* the signatures reachable from S over forward edges through Allowed
ReachVia(S, Allowed) ==
    LET N == S \cup {t \in Allowed : \E x \in S : t \in Targets(x)}
    IN  IF N = S THEN S ELSE ReachVia(N, Allowed)

Reach(root) == ReachVia({root}, SigUniverse)

AcyclicFrom(root) ==
    \A x \in Reach(root) : x \notin ReachVia(Targets(x), SigUniverse)

NoCandidatesFrom(root) ==
    \A x \in Reach(root) : \A e \in Range(Edges(x)) : e.implementations = <<>>

RECURSIVE NumPaths(_, _), SumPaths(_, _), LongestPath(_), LongestOf(_)
\* the number of distinct edge paths from a to b in an acyclic graph
NumPaths(a, b) == IF a = b THEN 1 ELSE SumPaths(Edges(a), b)
SumPaths(callees, b) ==
    IF callees = <<>> THEN 0
    ELSE NumPaths(Head(callees).method, b) + SumPaths(Tail(callees), b)
LongestPath(a) == IF Edges(a) = <<>> THEN 0 ELSE 1 + LongestOf(Edges(a))
LongestOf(callees) ==
    IF callees = <<>> THEN 0
    ELSE LET h == LongestPath(Head(callees).method)
             t == LongestOf(Tail(callees))
         IN  IF h >= t THEN h ELSE t

---------------------------------------------------------------------------
(* Claims *)

\* every edge of an emitted, expanded node that leads back to a signature on
\* the node's own path is emitted below it, tagged circular
ClosingRevisitsTagged ==
    \A i \in 1..Len(out) :
        (~out[i].is_circular /\ ~should_exclude_children(out[i].method)) =>
            \A e \in Range(Edges(out[i].method)) :
                (should_include(e.method) /\ e.method \in AncestorSigs(i) \cup {out[i].method})
                => \E k \in ChildIdxs(i) : out[k].method = e.method /\ out[k].is_circular

\* C1: the forward traversal (text and export variant) terminates for every
\* store, root and maxDepth; with a maxDepth far above the number of methods
\* the ceiling is never reached, no node is deeper than the number of
\* methods, and the revisit that closes a cycle is emitted tagged circular.
EndsByItself ==
    inv.max_depth = BigDepth =>
        /\ ~max_depth_reached
        /\ \A i \in 1..Len(out) : out[i].depth <= Cardinality(SigUniverse)
        /\ ClosingRevisitsTagged

C1_ForwardTerminates == (pc = "running") ~> (pc = "done" /\ EndsByItself)

C1_Witness ==
    /\ pc = "done" /\ inv.max_depth = BigDepth
    /\ ~AcyclicFrom(inv.root_method)
    /\ \E i \in 1..Len(out) : out[i].is_circular

\* C2: a node is tagged circular exactly when its signature is the signature
\* of one of its ancestors in the emitted tree, a circular node has no
\* descendants, and edges A->B, B->A from root A with maxDepth 10 give
\* A(0), B(1), A(2, circular).
C2_CircularIffOnOwnPath ==
    /\ \A i \in 1..Len(out) :
          /\ out[i].is_circular <=> out[i].method \in AncestorSigs(i)
          /\ (out[i].is_circular /\ i < Len(out)) => out[i + 1].depth <= out[i].depth
    /\ (/\ pc = "done"
        /\ inv.root_method = M("A") /\ inv.max_depth = BigDepth
        /\ include_exclusions = {} /\ exclude_children = {}
        /\ Targets(M("A")) = {M("B")} /\ Len(Edges(M("A"))) = 1
        /\ Targets(M("B")) = {M("A")} /\ Len(Edges(M("B"))) = 1)
       => Triples = <<<<0, M("A"), FALSE>>, <<1, M("B"), FALSE>>, <<2, M("A"), TRUE>>>>

C2_Witness ==
    /\ pc = "done" /\ inv.root_method = M("A") /\ inv.max_depth = BigDepth
    /\ Targets(M("A")) = {M("B")} /\ Targets(M("B")) = {M("A")}
    /\ Len(out) = 3 /\ out[3].is_circular

\* C3: without exclusion rules and implementation candidates, on an acyclic
\* reachable subgraph and with maxDepth at least the longest path, every
\* method is emitted once per distinct edge path from the root and no node
\* is circular (the diamond emits its join twice).
C3_OncePerPath ==
    (/\ pc = "done"
     /\ include_exclusions = {} /\ exclude_children = {}
     /\ NoCandidatesFrom(inv.root_method)
     /\ AcyclicFrom(inv.root_method)
     /\ inv.max_depth >= LongestPath(inv.root_method))
    => /\ \A x \in SigUniverse : Count(x) = NumPaths(inv.root_method, x)
       /\ \A i \in 1..Len(out) : ~out[i].is_circular

C3_Witness ==
    /\ pc = "done" /\ inv.root_method = M("R") /\ inv.max_depth = 2
    /\ include_exclusions = {} /\ exclude_children = {}
    /\ Targets(M("R")) = {M("A"), M("B")}
    /\ Targets(M("A")) = {M("C")} /\ Targets(M("B")) = {M("C")}
    /\ Edges(M("C")) = <<>>
    /\ Count(M("C")) = 2

\* C4: no emitted node (root, edge target or resolved implementation) has a
\* signature that the suppress rules exclude.
C4_SuppressedNeverEmitted ==
    \A i \in 1..Len(out) : should_include(out[i].method)

C4_Witness ==
    /\ pc = "done" /\ Len(out) > 1
    /\ ~should_include(site.callee) \/ \E c \in Range(site.filtered) :
          LET impl_method == _find_implementation_method(site.callee, c)
          IN  impl_method # None /\ ~should_include(impl_method)
    /\ \E i \in 1..Len(out) : \E e \in Range(Edges(out[i].method)) :
          /\ ~out[i].is_circular /\ out[i].depth < inv.max_depth
          /\ ~should_include(e.method)

\* C5: after a non-circular node that matches the cut rules no deeper node
\* follows: the node is emitted, its forward edges are not followed.
C5_CutStopsDescent ==
    \A i \in 1..Len(out) :
        (~out[i].is_circular /\ should_exclude_children(out[i].method) /\ i < Len(out))
        => out[i + 1].depth <= out[i].depth

C5_Witness ==
    \E i \in 1..Len(out) :
        /\ ~out[i].is_circular /\ should_exclude_children(out[i].method)
        /\ \E e \in Range(Edges(out[i].method)) : should_include(e.method)
        /\ out[i].depth < inv.max_depth
        /\ i < Len(out)

\* the premise of C6 for cut node x, independent caller y and shared callee c
IndependentPath(x, y, c) ==
    LET ok == {z \in SigUniverse \ {x} :
                  should_include(z) /\ ~should_exclude_children(z)}
    IN  /\ should_exclude_children(x)
        /\ c \in Targets(x) /\ c \in Targets(y)
        /\ should_include(c) /\ ~should_exclude_children(c)
        /\ inv.root_method \in ok
        /\ y \in ReachVia({inv.root_method}, ok)

\* C6: a cut on X does not hide a callee C of X that is also a callee of Y,
\* when Y is reached from the root on a path that avoids X and nothing on the
\* path nor C is suppressed or cut, with a sufficient maxDepth: C is emitted
\* as a child of Y.
C6_CutIsLocal ==
    (pc = "done" /\ inv.max_depth = BigDepth) =>
        \A x, y, c \in SigUniverse :
            IndependentPath(x, y, c) =>
                \E i \in 1..Len(out) :
                    /\ out[i].method = y /\ ~out[i].is_circular
                    /\ \E k \in ChildIdxs(i) : out[k].method = c

C6_Witness ==
    /\ pc = "done" /\ inv.max_depth = BigDepth
    /\ \E x, y, c \in SigUniverse :
          /\ IndependentPath(x, y, c)
          /\ \E i \in 1..Len(out) : out[i].method = x

\* the text before and after the '#' of a signature, by position
BeforeHash(sig) == SubSeq(sig, 1, FirstIndex(sig, HASH) - 1)
AfterHash(sig) == SubSeq(sig, FirstIndex(sig, HASH) + 1, Len(sig))

ThreeWayMatch(sig, targets) ==
    \/ sig \in targets
    \/ /\ Contains(sig, HASH)
       /\ BeforeHash(sig) \in targets \/ AfterHash(sig) \in targets

\* load_rules adds the rule of a method Class#member while the rule of its
\* class is already in the suppress set
MethodRuleAfterClassRule ==
    \E c \in {"X", "Y"}, m \in {"z", "w"} :
        /\ Str(c) \in include_exclusions
        /\ Sig(c, m) \notin include_exclusions
        /\ include_exclusions' = include_exclusions \cup {Sig(c, m)}

\* C7: should_include is false exactly on a three-way match (signature, text
\* before '#', text after '#') against the suppress set, should_exclude_children
\* is true exactly on the same match against the cut set, and adding a
\* method-level suppress rule to a policy that holds the rule of the method's
\* class changes should_include for no signature.
C7_ThreeWayMatch ==
    /\ [](\A sig \in PolicySigs :
            /\ should_include(sig) <=> ~ThreeWayMatch(sig, include_exclusions)
            /\ should_exclude_children(sig) <=> ThreeWayMatch(sig, exclude_children))
    /\ [][MethodRuleAfterClassRule =>
             \A sig \in PolicySigs : should_include(sig)' = should_include(sig)]_vars

C7_Witness ==
    /\ line_num = 3
    /\ rule_file = <<<<"X", TAB, "I">>, <<"X", HASH, "z", TAB, "I">>, <<"z", TAB, "E">>>>
    /\ include_exclusions = {Str("X"), Sig("X", "z")}
    /\ ~should_include(Sig("X", "w"))
    /\ should_exclude_children(Sig("Y", "z"))

\* the signatures of the methods that class cls owns with member-part mp
OwnedBy(cls, mp) ==
    {method_info[i].key : i \in {i \in 1..Len(method_info) :
        /\ method_info[i].value.class = cls
        /\ Contains(method_info[i].key, HASH)
        /\ AfterHash(method_info[i].key) = mp}}

ParentsOf(cls) == Range(Get(class_info, cls, <<>>))

RECURSIVE AncestorClasses(_, _)
\* the classes above the classes of frontier in the recorded hierarchy; a
\* name registered as an interface is no class and leads nowhere
AncestorClasses(frontier, seen) ==
    LET cur == {c \in frontier : c \notin seen /\ c \notin interface_data}
    IN  IF cur = {} THEN {}
        ELSE cur \cup AncestorClasses(UNION {ParentsOf(c) : c \in cur}, seen \cup frontier)

RECURSIVE NearestOwners(_, _, _)
\* the ancestor classes of the nearest generation that owns member-part mp
NearestOwners(frontier, seen, mp) ==
    LET cur == {c \in frontier : c \notin seen /\ c \notin interface_data}
        owners == {c \in cur : OwnedBy(c, mp) # {}}
    IN  IF cur = {} THEN {}
        ELSE IF owners # {} THEN owners
        ELSE NearestOwners(UNION {ParentsOf(c) : c \in cur}, seen \cup frontier, mp)

\* class cls owns no method mp and inherits it from ancestor class a
InheritsFrom(cls, a, mp) ==
    /\ OwnedBy(cls, mp) = {}
    /\ NearestOwners(ParentsOf(cls), {cls}, mp) = {a}

\* the call just made repeats the arguments of the call before it
RepeatedCall ==
    /\ resolved.calls > 0 /\ resolved'.calls = resolved.calls + 1
    /\ resolved'.abstract_method = resolved.abstract_method
    /\ resolved'.impl_class = resolved.impl_class

\* two calls in a row for one abstract method and two candidates that both
\* inherit its member-part from ancestor class a
SharedAncestorCalls(a) ==
    /\ resolved.calls > 0 /\ resolved'.calls = resolved.calls + 1
    /\ resolved'.abstract_method = resolved.abstract_method
    /\ Contains(resolved.abstract_method, HASH)
    /\ resolved'.impl_class # resolved.impl_class
    /\ InheritsFrom(resolved.impl_class, a, AfterHash(resolved.abstract_method))
    /\ InheritsFrom(resolved'.impl_class, a, AfterHash(resolved.abstract_method))

FooBarBase ==
    /\ OwnedBy(Str("Foo"), Str("m")) = {Sig("Foo", "m")}
    /\ InheritsFrom(Str("Bar"), Str("Base"), Str("m"))
    /\ OwnedBy(Str("Base"), Str("m")) = {Sig("Base", "m")}

C10_FilterAllOrNothing ==
    LET C == site.impl_classes
        S == IF site.accumulated = AccNone THEN {} ELSE site.accumulated
        both == SelectSeq(C, LAMBDA c : c \in S)
    IN  C # <<>> =>
            /\ site.filtered = IF both # <<>> THEN both ELSE C
            /\ site.filtered # <<>>

C10_Witness ==
    /\ site.impl_classes # <<>>
    /\ Len(site.filtered) < Len(site.impl_classes)
    /\ pc = "done" /\ Len(out) > 2

---------------------------------------------------------------------------
(* Entry-point classification *)

\* the categories whose test the method's own annotations, class annotations,
\* static-ness and visibility pass; Unknown is what is left when none does
MatchedCategories(info) ==
    {c \in Range(CheckOrder) : MatchesCategory(info, c)} \cup {"Unknown"}

\* the matched category of the highest priority, which is the least number
BestCategory(info) ==
    CHOOSE c \in MatchedCategories(info) :
        \A d \in MatchedCategories(info) : _entry_priority(c) <= _entry_priority(d)

ClassifiedInfo == DictGet(method_info, classified.method, NoInfo)

\* the call classified a method whose category is decided by its own record:
\* it has no raw entry type and no ancestor declaration
ClassifiedOnItsOwn ==
    /\ classified.method # <<>>
    /\ ClassifiedInfo.entry_type = ""
    /\ _find_parent_methods(classified.method) = <<>>

\* C11: the category _determine_entry_type returns for a method is the one of
\* the highest priority among the categories the method's own annotations,
\* class annotations and static-ness match, so that a method with an HTTP
\* mapping annotation and a test annotation is an HTTP endpoint.  Stated for
\* the methods with no raw entry type and no ancestor declaration.
C11_HighestPriorityMatchWins ==
    ClassifiedOnItsOwn => classified.entry_type = BestCategory(ClassifiedInfo)

\* C12: a method that matches the main-method heuristic (static, in a class
\* whose name contains "main") is classified "Main Method", whatever its
\* annotations, its raw entry type and its ancestor declarations are.
C12_MainMethodWins ==
    (classified.method # <<>> /\ MatchesCategory(ClassifiedInfo, "Main Method"))
        => /\ classified.entry_type = "Main Method"
           /\ _entry_priority(classified.entry_type) = 1

\* a static method of class Main with a test annotation, raw entry type Test
\* and an ancestor declaration that is an HTTP endpoint was classified
C12_Witness ==
    /\ classified.method = M("Main")
    /\ MatchesCategory(ClassifiedInfo, "Main Method")
    /\ MatchesCategory(ClassifiedInfo, "Test Method")
    /\ ClassifiedInfo.entry_type = "Test"
    /\ _find_parent_methods(classified.method) = <<M("B")>>
    /\ MatchesCategory(DictGet(method_info, M("B"), NoInfo), "HTTP Endpoint (Spring)")
    /\ classified.entry_type = "Main Method"

\* a listing has been printed
Listed == pc = "done" /\ inv.kind \in {"list", "tsv"}

\* the methods a listing keeps, whatever the order of method_info is
ListedMethods(min_calls, strict) ==
    {e.key : e \in {x \in Range(method_info) :
        /\ x.key \notin AllCallees
        /\ x.value.class \notin interface_data
        /\ IF strict THEN x.value.is_entry_point
           ELSE Len(Get(forward_calls, x.key, <<>>)) >= min_calls}}

\* C13: the list of list_entry_points and of list_entry_points_tsv is in
\* ascending order of (priority of the assigned category, signature); it holds
\* each kept method once, with the category _determine_entry_type assigns, so
\* that the order of the method records in the document does not show.
C13_SortedByPriorityThenSignature ==
    Listed =>
        /\ \A i, j \in 1..Len(entry_points) :
              i < j => KeyLess(entry_points[i], entry_points[j])
        /\ {entry_points[i].method : i \in 1..Len(entry_points)}
               = ListedMethods(inv.min_calls, inv.strict)
        /\ \A i \in 1..Len(entry_points) :
              entry_points[i].entry_type =
                  _determine_entry_type(
                      entry_points[i].method,
                      DictGet(method_info, entry_points[i].method, NoInfo))

\* three methods were listed in the order HTTP endpoint B#m, test method A#m,
\* public method Main#m, from a document that has Main#m first and B#m last
C13_Witness ==
    /\ Listed
    /\ Len(entry_points) = 3
    /\ entry_points[1].method = M("B")
    /\ entry_points[1].entry_type = "HTTP Endpoint (Spring)"
    /\ entry_points[2].method = M("A")
    /\ entry_points[2].entry_type = "Test Method"
    /\ entry_points[3].method = M("Main")
    /\ method_info[1].key = M("Main")
    /\ method_info[3].key = M("B")

---------------------------------------------------------------------------
(* Reverse traversal *)

ReverseDone == pc = "done" /\ inv.kind = "reverse"

BatchDone == pc = "done" /\ inv.kind = "batch"

\* the text after the first '#', or nothing
MemberPart(sig) == IF Contains(sig, HASH) THEN split1(sig, HASH)[2] ELSE <<>>

\* the declarations of method's member-part in the classes that the record
\* of method lists as ancestors
AncestorDeclarations(method) ==
    {e.key : e \in {x \in Range(method_info) :
        /\ Contains(method, HASH) /\ Contains(x.key, HASH)
        /\ MemberPart(x.key) = MemberPart(method)
        /\ x.value.class \in Range(CommaList(DictGet(method_info, method, NoInfo).parent))}}

\* the same for the tables of the batch helper: the superclass and the
\* interfaces of method's class
BatchAncestorDeclarations(method) ==
    LET cls == IF Contains(method, HASH) THEN split1(method, HASH)[1] ELSE <<>>
        rec == Get(batch.class_data, cls, [superClass |-> <<>>, allInterfaces |-> <<>>])
        ancestors == (IF rec.superClass # <<>> THEN {rec.superClass} ELSE {})
                     \cup Range(rec.allInterfaces)
    IN  {sig \in {a \o <<HASH>> \o MemberPart(method) : a \in ancestors} :
            Contains(method, HASH) /\ InMethodsData(sig)}

HasCallers(method) == method \in DOMAIN reverse_calls /\ reverse_calls[method] # <<>>

BatchHasCallers(method) ==
    method \in DOMAIN batch.reverse_calls /\ batch.reverse_calls[method] # <<>>

\* C14: a reverse traversal of a target that has no recorded caller and no
\* ancestor declaration of its member-part, and that is not suppressed, emits
\* the target at depth 0 and nothing else, and its terminal set is {target};
\* this for every max_depth >= 0, with override-following on or off, and for
\* the terminal set of the batch helper as well.
C14_LoneTargetIsItsOwnEndpoint ==
    /\ (/\ ReverseDone
        /\ ~HasCallers(inv.root_method)
        /\ AncestorDeclarations(inv.root_method) = {}
        /\ should_include(inv.root_method))
           => /\ out = <<Node(0, inv.root_method, FALSE, "")>>
              /\ final_endpoints = {inv.root_method}
    /\ (/\ BatchDone
        /\ ~BatchHasCallers(inv.root_method)
        /\ BatchAncestorDeclarations(inv.root_method) = {})
           => final_endpoints = {inv.root_method}

\* a traversal with override-following on ended on a target without callers
\* whose class lists an ancestor that does not declare the member-part
C14_Witness ==
    /\ ReverseDone
    /\ inv.follow_overrides
    /\ inv.max_depth = 0
    /\ ~HasCallers(inv.root_method)
    /\ DictGet(method_info, inv.root_method, NoInfo).parent # <<>>
    /\ AncestorDeclarations(inv.root_method) = {}
    /\ out = <<Node(0, inv.root_method, FALSE, "")>>
    /\ final_endpoints = {inv.root_method}

---------------------------------------------------------------------------
(* Depth ceiling *)

Traversing == pc = "running" /\ inv.kind \in {"print", "collect", "reverse"}

\* the next step is an activation of a recursive traversal function
Activation == Traversing /\ stack # <<>> /\ Head(stack).op = "call"

\* no emitted node is deeper than max_depth, the first one is the root at
\* depth 0, and no pending call is deeper than max_depth + 1
WithinCeiling ==
    inv.kind \in {"print", "collect", "reverse"} =>
        /\ \A i \in 1..Len(out) : out[i].depth \in 0..inv.max_depth
        /\ out # <<>> => out[1] = Node(0, inv.root_method, FALSE, "")
        /\ \A i \in 1..Len(stack) : stack[i].depth \in 0..(inv.max_depth + 1)

\* an activation at depth max_depth + 1 sets the flag, emits nothing and
\* returns to the pending siblings; any other step leaves the flag alone, and
\* an activation at a depth up to max_depth of a method that is not suppressed
\* emits its node at that depth
CeilingStep ==
    /\ Activation /\ Head(stack).depth > inv.max_depth
          => /\ max_depth_reached'
             /\ out' = out
             /\ stack' = Tail(stack)
             /\ pc' \in {"running", "done"}
    /\ Traversing /\ ~(Activation /\ Head(stack).depth > inv.max_depth)
          => max_depth_reached' = max_depth_reached
    /\ Activation /\ Head(stack).depth <= inv.max_depth
           /\ should_include(Head(stack).method)
          => /\ Len(out') = Len(out) + 1
             /\ out'[Len(out')].depth = Head(stack).depth
             /\ out'[Len(out')].method = Head(stack).method
    /\ pc \in {"idle", "done"} /\ pc' = "running" => ~max_depth_reached'

\* C15: in the forward and in the reverse traversal no emitted node is deeper
\* than max_depth, the root is at depth 0 and nodes at depth max_depth are
\* emitted; the flag is set exactly by the activations at depth max_depth + 1,
\* which emit nothing, raise nothing and only end their own branch.
C15_DepthCeiling == [](WithinCeiling) /\ [][CeilingStep]_vars

\* a reverse traversal ended with the flag set, a node at depth max_depth
\* and a terminal method found on another branch
C15_Witness ==
    /\ ReverseDone
    /\ max_depth_reached
    /\ inv.max_depth = 1
    /\ \E i \in 1..Len(out) : out[i].depth = inv.max_depth
    /\ final_endpoints # {}

---------------------------------------------------------------------------
(* Hierarchy resolver: termination and search order *)

RECURSIVE Above(_, _)
\* every name reachable from the names of frontier through the ancestor
\* lists, interfaces included
Above(frontier, seen) ==
    LET cur == frontier \ seen
    IN  IF cur = {} THEN {}
        ELSE cur \cup Above(UNION {ParentsOf(c) : c \in cur}, seen \cup cur)

\* the queue loop of the last resolver call
LastBfs ==
    BfsLoop(Get(class_info, resolved.impl_class, <<>>), {resolved.impl_class},
            AfterHash(resolved.abstract_method), <<>>, 0)

NoDuplicates(s) == \A i, j \in 1..Len(s) : s[i] = s[j] => i = j

RECURSIVE ShallowestOwners(_, _, _)
\* the names of the nearest generation above, superclasses and interfaces
\* alike, in which some name owns member-part mp
ShallowestOwners(frontier, seen, mp) ==
    LET cur == frontier \ seen
        owners == {c \in cur : OwnedBy(c, mp) # {}}
    IN  IF cur = {} THEN {}
        ELSE IF owners # {} THEN owners
        ELSE ShallowestOwners(UNION {ParentsOf(c) : c \in cur}, seen \cup cur, mp)

\* the last call was for a candidate that owns no method with the abstract
\* member-part
AncestorSearch ==
    /\ resolved.calls > 0
    /\ Contains(resolved.abstract_method, HASH)
    /\ OwnedBy(resolved.impl_class, AfterHash(resolved.abstract_method)) = {}

\* C17: when the candidate owns no matching method the resolver returns a
\* method of the nearest generation of ancestors, superclass and interfaces
\* alike, in which some ancestor owns the abstract member-part; a method owned
\* only by an interface ancestor is returned, and None is returned only when
\* no ancestor owns the member-part.
C17_ShallowestGenerationWins ==
    AncestorSearch =>
        LET mp == AfterHash(resolved.abstract_method)
            owners == ShallowestOwners(ParentsOf(resolved.impl_class),
                                       {resolved.impl_class}, mp)
        IN  IF owners = {} THEN resolved.result = None
            ELSE \E a \in owners : resolved.result \in OwnedBy(a, mp)

---------------------------------------------------------------------------
(* The accumulated instance set *)

Forward == inv.kind \in {"print", "collect"}

\* the accumulated set as a set of class names: None holds nothing
Accumulated(acc) == IF acc = AccNone THEN {} ELSE acc

\* the instantiated types of the non-circular nodes emitted so far
TypesEmitted ==
    UNION {_collect_created_instances(out[i].method) :
              i \in {j \in 1..Len(out) : ~out[j].is_circular}}

\* a step of a forward traversal never takes a name out of the set, and the
\* set a polymorphic call site filters with is the one set of the invocation
AccumulatedStep ==
    /\ Forward /\ pc = "running"
          => Accumulated(accumulated_instances) \subseteq Accumulated(accumulated_instances')
    /\ Forward /\ pc = "running" /\ stack # <<>> /\ Head(stack).op = "impl"
           /\ site' # site
          => /\ site'.accumulated = accumulated_instances
             /\ Accumulated(site'.accumulated) = TypesEmitted

\* C18: a forward traversal has one accumulated instance set for all its
\* branches; it only grows, and it always holds the instantiated types of
\* every non-circular node emitted so far, so that the set a call site
\* filters its candidates with includes the types of earlier sibling subtrees
\* and of the abstract target's own subtree.
C18_OneGrowingSet ==
    /\ [](Forward => Accumulated(accumulated_instances) = TypesEmitted)
    /\ [][AccumulatedStep]_vars

\* the call site R#m -> C#m kept candidate B only, because the earlier
\* sibling A#m, which is no ancestor of the site, instantiates B
C18_Witness ==
    /\ Forward
    /\ inv.root_method = M("R")
    /\ site.callee = M("C")
    /\ site.impl_classes = <<Str("A"), Str("B")>>
    /\ site.accumulated = {Str("B")}
    /\ site.filtered = <<Str("B")>>
    /\ _collect_created_instances(M("A")) = {Str("B")}
    /\ _collect_created_instances(M("R")) = {}
    /\ _collect_created_instances(M("C")) = {}
    /\ \E i \in 1..Len(out) : out[i] = Node(1, M("A"), FALSE, "")

---------------------------------------------------------------------------
(* Override pivot and cycles of the reverse traversal *)

Reverse == inv.kind = "reverse"

\* a method without callers that has an ancestor declaration to continue from
Pivoted(method) ==
    /\ ~HasCallers(method)
    /\ inv.follow_overrides
    /\ AncestorDeclarations(method) # {}

\* the next step emits a non-circular node for the call on top of the stack
EmitsNode ==
    /\ Reverse /\ pc = "running" /\ stack # <<>>
    /\ Head(stack).depth <= inv.max_depth
    /\ should_include(Head(stack).method)
    /\ Head(stack).method \notin Head(stack).visited

\* the calls the step has put in front of the pending ones
NewCalls == SubSeq(stack', 1, Len(stack') - Len(stack) + 1)

\* what the step of a node does next: a pivoted node continues at the same
\* depth from each ancestor declaration, a node with callers one level up
\* from each caller, any other node is terminal and continues nowhere
PivotStep ==
    EmitsNode =>
        LET f == Head(stack)
        IN  /\ Len(stack') >= Len(stack) - 1
            /\ SubSeq(stack', Len(NewCalls) + 1, Len(stack')) = Tail(stack)
            /\ \A i \in 1..Len(NewCalls) :
                  NewCalls[i].visited = f.visited \cup {f.method}
            /\ IF HasCallers(f.method)
               THEN /\ [i \in 1..Len(NewCalls) |-> NewCalls[i].method]
                           = reverse_calls[f.method]
                    /\ \A i \in 1..Len(NewCalls) : NewCalls[i].depth = f.depth + 1
                    /\ final_endpoints' = final_endpoints
               ELSE IF Pivoted(f.method)
               THEN /\ {NewCalls[i].method : i \in 1..Len(NewCalls)}
                           = AncestorDeclarations(f.method)
                    /\ \A i \in 1..Len(NewCalls) : NewCalls[i].depth = f.depth
                    /\ final_endpoints' = final_endpoints
               ELSE /\ NewCalls = <<>>
                    /\ final_endpoints' = final_endpoints \cup {f.method}

\* the terminal set holds the emitted methods that have no caller and are
\* not pivoted, and nothing else
TerminalSet ==
    Reverse =>
        final_endpoints =
            {out[i].method : i \in {j \in 1..Len(out) :
                /\ ~out[j].is_circular
                /\ ~HasCallers(out[j].method)
                /\ ~Pivoted(out[j].method)}}

\* C19: with override-following on, a node without recorded callers whose
\* listed ancestor classes declare its member-part is not terminal and the
\* search goes on from each such declaration at the same depth; without such
\* a declaration, or with override-following off, the node is terminal; a
\* node with recorded callers is neither pivoted nor terminal.
C19_OverridePivot == [](TerminalSet) /\ [][PivotStep]_vars

\* target C#m has no caller and overrides B#m, which A#m calls: the search
\* went on from B#m at depth 0 and ended at A#m
C19_Witness ==
    /\ ReverseDone
    /\ inv.follow_overrides
    /\ out = <<Node(0, M("C"), FALSE, ""), Node(0, M("B"), FALSE, ""),
               Node(1, M("A"), FALSE, "")>>
    /\ final_endpoints = {M("A")}
    /\ AncestorDeclarations(M("C")) = {M("B")}

\* the next step handles a call that is within the ceiling and not suppressed
HandlesCall ==
    /\ Reverse /\ pc = "running" /\ stack # <<>>
    /\ Head(stack).depth <= inv.max_depth
    /\ should_include(Head(stack).method)

\* a signature that is on the path of the call is emitted tagged circular,
\* not descended into and not made terminal; any other is emitted untagged
\* and each call made from it gets its own copy of the path with it added
CycleStep ==
    HandlesCall =>
        LET f == Head(stack)
        IN  IF f.method \in f.visited
            THEN /\ out' = Append(out, Node(f.depth, f.method, TRUE, ""))
                 /\ stack' = Tail(stack)
                 /\ final_endpoints' = final_endpoints
            ELSE /\ out' = Append(out, Node(f.depth, f.method, FALSE, ""))
                 /\ \A i \in 1..Len(NewCalls) :
                       NewCalls[i].visited = f.visited \cup {f.method}

\* the path of a pending call: the target's call has the empty path, any
\* other call has the target and only emitted methods on its path
PathSets ==
    Reverse =>
        \A i \in 1..Len(stack) :
            /\ stack[i].visited \subseteq {out[j].method : j \in 1..Len(out)}
            /\ (out # <<>>) => inv.root_method \in stack[i].visited

\* the traversal has ended; with a ceiling far above the number of methods
\* it ended without reaching it and no node is deeper than the number of
\* methods
ReverseEnded ==
    /\ pc = "done"
    /\ inv.max_depth = BigDepth =>
          /\ ~max_depth_reached
          /\ \A i \in 1..Len(out) : out[i].depth <= Cardinality(SigUniverse)

\* C20: the reverse traversal keeps a path-local visited set, copied for each
\* recursive call; a signature met again on its own path is emitted tagged
\* circular, not descended into and not added to the terminal set; and the
\* traversal terminates on every reverse-edge map, with caller cycles and
\* with cycles of override pivots, which recurse at the same depth.
C20_ReverseCyclesEnd ==
    /\ [](PathSets)
    /\ [][CycleStep]_vars
    /\ (Reverse /\ pc = "running") ~> ReverseEnded

\* B and C list each other as ancestors and nobody calls them: the traversal
\* of C#m pivoted to B#m and back, tagged C#m circular at depth 0 and ended
\* with no terminal method
C20_Witness ==
    /\ ReverseDone
    /\ inv.follow_overrides
    /\ inv.max_depth = BigDepth
    /\ out = <<Node(0, M("C"), FALSE, ""), Node(0, M("B"), FALSE, ""),
               Node(0, M("C"), TRUE, "")>>
    /\ final_endpoints = {}

---------------------------------------------------------------------------
(* The store under traversal *)

\* a top-level call is being made
TopLevelCall == pc \in {"idle", "done"} /\ pc' = "running"

\* the call starts from an empty path, no output, a fresh accumulated set, a
\* cleared flag and an empty terminal set
FreshStart ==
    TopLevelCall =>
        /\ stack' = <<Frame("call", inv'.root_method, 0, {}, "", <<>>)>>
        /\ out' = <<>>
        /\ accumulated_instances' = AccNone
        /\ ~max_depth_reached'
        /\ final_endpoints' = {}

\* no step of a traversal, and no top-level call, writes to the store or to
\* the rule sets; the tables of the batch helper are left alone as well
StoreKept ==
    /\ method_info' = method_info
    /\ class_info' = class_info
    /\ class_data' = class_data
    /\ interface_data' = interface_data
    /\ forward_calls' = forward_calls
    /\ reverse_calls' = reverse_calls
    /\ include_exclusions' = include_exclusions
    /\ exclude_children' = exclude_children
    /\ batch' = batch

\* a step that adds a type to the accumulated set leaves the createdInstances
\* list of every record as it was
NoAlias ==
    accumulated_instances' # accumulated_instances =>
        \A i \in 1..Len(method_info) :
            /\ method_info'[i].key = method_info[i].key
            /\ method_info'[i].value.createdInstances = method_info[i].value.createdInstances

\* the result of the finished call is the result of the same call on a
\* visualizer that has run nothing before
AsIfFirst ==
    pc = "done" =>
        /\ inv.kind = "print" =>
              LET first == PrintedTree(inv.root_method, inv.max_depth,
                                       inv.follow_implementations)
              IN  /\ out = first.out
                  /\ accumulated_instances = first.accumulated_instances
                  /\ max_depth_reached = first.max_depth_reached
        /\ inv.kind = "collect" =>
              LET first == CollectedTree(inv.root_method, inv.max_depth,
                                         inv.follow_implementations)
              IN  /\ out = first.out
                  /\ accumulated_instances = first.accumulated_instances
                  /\ max_depth_reached = first.max_depth_reached
        /\ inv.kind = "reverse" =>
              LET first == ReversedTree(inv.root_method, inv.max_depth,
                                        inv.follow_overrides)
              IN  /\ out = first.out
                  /\ final_endpoints = first.final_endpoints
                  /\ max_depth_reached = first.max_depth_reached

\* C21: no forward or reverse traversal writes to the method records, the
\* class records, the class hierarchy, the edge maps or the rule sets, the
\* accumulated set grows without any record's createdInstances list changing,
\* every top-level call starts from an empty visited set and a fresh
\* accumulated set, and what a call emits and returns is what the same call
\* gives when nothing has run before it.
C21_TraversalLeavesStore ==
    /\ [](AsIfFirst)
    /\ [][FreshStart /\ StoreKept /\ NoAlias]_vars

\* a forward traversal that ran after another traversal has ended with types
\* in its accumulated set that its root does not instantiate
C21_Witness ==
    /\ pc = "done" /\ Forward
    /\ Len(out) > 2
    /\ Accumulated(accumulated_instances) # {}
    /\ _collect_created_instances(inv.root_method) = {}
    /\ \E i \in 1..Len(method_info) : method_info[i].value.createdInstances # <<>>

---------------------------------------------------------------------------
(* Missing data *)

\* the store has a record of the method
Known(method) == DictHas(method_info, method)

\* an emitted node whose method has no record has no children, no metadata
\* and no instantiated types, and in a reverse traversal it is terminal
MissingIsLeaf ==
    \A i \in 1..Len(out) :
        ~Known(out[i].method) =>
            /\ i < Len(out) => out[i + 1].depth <= out[i].depth
            /\ DictGet(method_info, out[i].method, NoInfo) = NoInfo
            /\ _collect_created_instances(out[i].method) = {}
            /\ (Reverse /\ ~out[i].is_circular) => out[i].method \in final_endpoints

\* the activation for a method without a record emits its node and returns to
\* the pending calls, which it leaves as they are
MissingStep ==
    (/\ Activation
     /\ Head(stack).depth <= inv.max_depth
     /\ should_include(Head(stack).method)
     /\ ~Known(Head(stack).method))
    => /\ Len(out') = Len(out) + 1
       /\ SubSeq(out', 1, Len(out)) = out
       /\ out'[Len(out')].method = Head(stack).method
       /\ out'[Len(out')].depth = Head(stack).depth
       /\ stack' = Tail(stack)
       /\ Accumulated(accumulated_instances') = Accumulated(accumulated_instances)
       /\ max_depth_reached' = max_depth_reached

\* the candidates of the site whose expansion is made
Expanded(callee, impl_classes) ==
    {k \in 1..Len(impl_classes) :
        LET impl_method == _find_implementation_method(callee, impl_classes[k])
        IN  impl_method # None /\ should_include(impl_method)}

\* the step of a polymorphic call site pushes one call per expanded candidate
\* and nothing for the others
SiteStep ==
    (/\ Forward /\ pc = "running" /\ stack # <<>> /\ Head(stack).op = "impl"
     /\ ~(inv.kind = "print" /\ should_exclude_children(Head(stack).method)))
    => /\ site'.callee = Head(stack).method
       /\ Len(stack') = Len(Tail(stack))
                        + Cardinality(Expanded(site'.callee, site'.filtered))
       /\ out' = out

\* as worded: every candidate without an entry in the class hierarchy is
\* not found
AbsentFromHierarchyNotFound ==
    \A c \in Range(site.filtered) :
        c \notin DOMAIN class_info => _find_implementation_method(site.callee, c) = None

\* a candidate without an entry in the class hierarchy that owns no method
\* with the member-part of the abstract target is not found
AbsentFromStoreNotFound ==
    \A c \in Range(site.filtered) :
        (c \notin DOMAIN class_info /\ OwnedBy(c, MemberPart(site.callee)) = {})
            => /\ _find_implementation_method(site.callee, c) = None
               /\ \A k \in Expanded(site.callee, site.filtered) : site.filtered[k] # c

\* C22 as worded: a forward-edge target or reverse-edge caller without a
\* method record is emitted as one node without children and metadata, and a
\* candidate class absent from the class hierarchy is not found and its
\* expansion omitted, the rest of the traversal going on as before.
C22_MissingDataAsWorded ==
    /\ [](MissingIsLeaf /\ AbsentFromHierarchyNotFound)
    /\ [][MissingStep /\ SiteStep]_vars

\* C22, amended: a forward-edge target or reverse-edge caller without a
\* method record is emitted as one node without children and metadata, and a
\* candidate class that is absent from the class hierarchy and owns no method
\* with the abstract member-part is not found and its expansion omitted, the
\* rest of the traversal going on as before.
C22_MissingDataIsLeaf ==
    /\ [](MissingIsLeaf /\ AbsentFromStoreNotFound)
    /\ [][MissingStep /\ SiteStep]_vars

\* a forward traversal emitted a node without a record and a sibling after
\* it, and dropped a candidate that the store knows nothing of but kept the
\* other
C22_Witness ==
    /\ pc = "done" /\ Forward
    /\ \E i \in 1..Len(out) : ~Known(out[i].method) /\ i < Len(out)
    /\ \E c \in Range(site.filtered) :
          /\ c \notin DOMAIN class_info
          /\ OwnedBy(c, MemberPart(site.callee)) = {}
    /\ Expanded(site.callee, site.filtered) # {}

---------------------------------------------------------------------------
(* Ingestion *)

\* the names of the ancestor lists of the records of class c read so far, in
\* the order in which the records list them
RECURSIVE NamesSeen(_, _)
NamesSeen(c, n) ==
    IF n = 0 THEN <<>>
    ELSE NamesSeen(c, n - 1)
         \o (IF unread.methods[n].class = c /\ unread.methods[n].method # <<>>
             THEN CommaList(unread.methods[n].parentClasses)
             ELSE <<>>)

\* a list without its repetitions: each name where it first stands
RECURSIVE FirstSeen(_)
FirstSeen(names) ==
    IF names = <<>> THEN <<>>
    ELSE LET front == FirstSeen(SubSeq(names, 1, Len(names) - 1))
             last == names[Len(names)]
         IN  IF last \in Range(front) THEN front ELSE Append(front, last)

\* C23: after any sequence of method records the class-hierarchy entry of a
\* class holds each ancestor name that its records list at most once, in the
\* order in which the names were first seen, also when a record repeats a
\* name inside its own list.
C23_AncestorsOnceInFirstSeenOrder ==
    \A c \in DOMAIN class_info :
        /\ NoDuplicates(class_info[c])
        /\ class_info[c] = FirstSeen(NamesSeen(c, unread.read))


---------------------------------------------------------------------------
(* C24: the relation tags of the collected tree                             *)

\* the nodes of out that are children of node j: one level below it, with
\* nothing at its level or above in between
ChildrenOf(j) ==
    SelectSeq([i \in 1..Len(out) |-> i], LAMBDA i :
        /\ i > j
        /\ out[i].depth = out[j].depth + 1
        /\ \A k \in (j + 1)..(i - 1) : out[k].depth > out[j].depth)

ChildrenAsSet(j) == Range(ChildrenOf(j))

\* the node expands its edges
Expands(j) ==
    /\ ~out[j].is_circular
    /\ ~should_exclude_children(out[j].method)
    /\ out[j].depth < inv.max_depth

\* the edges of a node whose targets are emitted
IncludedEdges(method) ==
    SelectSeq(Get(forward_calls, method, <<>>), LAMBDA e : should_include(e.method))

\* the child was reached through the resolver from a candidate of an edge
ReachedThroughResolver(j, i) ==
    /\ inv.follow_implementations
    /\ \E e \in Range(IncludedEdges(out[j].method)) :
          /\ e.implementations # <<>>
          /\ \E c \in Range(FirstWords(CommaList(e.implementations))) :
                _find_implementation_method(e.method, c) = out[i].method

\* the children of every node that are not tagged as resolved are the
\* targets of its edges in order, tagged as tag(e) says; the others were
\* reached through the resolver; the root has no tag
TagsFollow(tags, tag(_)) ==
    (pc = "done" /\ inv.kind = "collect") =>
        \A j \in 1..Len(out) :
            LET children == ChildrenOf(j)
                direct == SelectSeq(children, LAMBDA i :
                              out[i].parent_relation # "implementation_candidate")
                edges == IncludedEdges(out[j].method)
            IN  /\ out[j].parent_relation \in tags
                /\ out[j].depth = 0 => out[j].parent_relation = ""
                /\ IF Expands(j)
                   THEN [k \in 1..Len(direct) |->
                            <<out[direct[k]].method, out[direct[k]].parent_relation>>]
                        = [k \in 1..Len(edges) |-> <<edges[k].method, tag(edges[k])>>]
                   ELSE children = <<>>
                /\ \A k \in 1..Len(children) :
                      out[children[k]].parent_relation = "implementation_candidate"
                          => ReachedThroughResolver(j, children[k])

\* the tag of an edge target as the three-tag reading has it
TagOfThree(e) == IF e.is_parent_method = "Yes" THEN "parent_class_method" ELSE ""

\* the tag of an edge target with the interface tag: an unflagged edge that
\* carries candidates tags its target "interface"
TagOfFour(e) ==
    CASE e.is_parent_method = "Yes" -> "parent_class_method"
      [] e.is_parent_method # "Yes" /\ e.implementations # <<>> -> "interface"
      [] OTHER -> ""

\* C24 as worded: every node of _collect_tree_data has a tag from {none,
\* ancestor-method, resolved-implementation}; ancestor-method exactly on the
\* target of a flagged edge, resolved-implementation exactly on a node
\* reached through the resolver, none otherwise
C24_ThreeRelationTags ==
    TagsFollow({"", "parent_class_method", "implementation_candidate"}, TagOfThree)

\* C24 as amended: every node of _collect_tree_data has a tag from {none,
\* ancestor-method, interface-method, resolved-implementation};
\* ancestor-method exactly on the target of a flagged edge, interface-method
\* exactly on the target of an unflagged edge that carries candidates,
\* resolved-implementation exactly on a node reached through the resolver,
\* none otherwise, the root included
C24_FourRelationTags ==
    TagsFollow({"", "parent_class_method", "interface", "implementation_candidate"},
               TagOfFour)

\* a finished collection with a flagged edge that carries candidates, and
\* nodes of all four tags
C24_Witness ==
    /\ pc = "done" /\ inv.kind = "collect"
    /\ \E e \in Range(Get(forward_calls, inv.root_method, <<>>)) :
          e.is_parent_method = "Yes" /\ e.implementations # <<>>
    /\ \E i \in 1..Len(out) : out[i].parent_relation = "parent_class_method"
    /\ \E i \in 1..Len(out) : out[i].parent_relation = "implementation_candidate"
    /\ \E i \in 1..Len(out) : out[i].parent_relation = ""  /\ out[i].depth > 0

\* a finished collection with an interface-tagged node
C24_InterfaceTagged ==
    /\ pc = "done" /\ inv.kind = "collect"
    /\ \E i \in 1..Len(out) : out[i].parent_relation = "interface"


---------------------------------------------------------------------------
(* C25: the methods listed as entry-point candidates                        *)

\* the method is the target of no forward edge of the store
Uncalled(method) ==
    \A caller \in DOMAIN forward_calls :
        \A i \in 1..Len(forward_calls[caller]) :
            forward_calls[caller][i].method # method

\* the methods a listing accepts by its mode
AcceptedByMode ==
    {method_info[i].key : i \in {i \in 1..Len(method_info) :
        IF inv.strict THEN method_info[i].value.is_entry_point
        ELSE Len(Get(forward_calls, method_info[i].key, <<>>)) >= inv.min_calls}}

\* the methods whose class is registered in the interfaces section
OfInterface ==
    {method_info[i].key : i \in {i \in 1..Len(method_info) :
        method_info[i].value.class \in interface_data}}

ListedSigs == {entry_points[i].method : i \in 1..Len(entry_points)}

\* C25 as worded: the listed methods are exactly the uncalled methods that
\* the mode accepts (strict: marker true; loose: at least minCalls outgoing
\* edges); a method called by anything, itself included, is never listed
C25_ExactlyUncalledAccepted ==
    Listed => ListedSigs = {m \in AcceptedByMode : Uncalled(m)}

\* C25 as amended: the listed methods are exactly the uncalled methods of a
\* class that is not registered as an interface that the mode accepts; a
\* method called by anything, itself included, is never listed
C25_ExactlyUncalledAcceptedNonInterface ==
    Listed =>
        /\ ListedSigs = {m \in AcceptedByMode \ OfInterface : Uncalled(m)}
        /\ \A m \in ListedSigs : Uncalled(m)
        /\ \A i, j \in 1..Len(entry_points) :
              entry_points[i].method = entry_points[j].method => i = j

\* a loose listing of a store in which a method with enough outgoing edges
\* calls only itself, another is called by a different method, and a third
\* is listed
C25_Witness ==
    /\ Listed /\ ~inv.strict /\ inv.min_calls = 1
    /\ \E m \in DOMAIN forward_calls :
          /\ \E i \in 1..Len(forward_calls[m]) : forward_calls[m][i].method = m
          /\ m \notin ListedSigs
    /\ \E m \in DOMAIN forward_calls :
          \E i \in 1..Len(forward_calls[m]) : forward_calls[m][i].method # m
    /\ ListedSigs # {}

\* a strict listing of a store with an uncalled marked method of an interface
C25_InterfaceMethodMarked ==
    /\ Listed /\ inv.strict
    /\ \E m \in OfInterface \cap AcceptedByMode : Uncalled(m)


---------------------------------------------------------------------------
(* C26: own tests and ancestor declarations in the classification           *)

\* a call of _determine_entry_type has returned
Classified == pc = "done" /\ inv.kind = "classify"

\* the category the tests yield on the method's own record
OwnCategory == _check_entry_type_from_info(ClassifiedInfo)

\* the categories the method's own record contributes: the one of its tests
\* and the one its raw entry type stands for
OwnCategories ==
    {OwnCategory}
    \cup (IF ClassifiedInfo.entry_type = "" THEN {}
          ELSE IF ClassifiedInfo.entry_type \in DOMAIN type_map
          THEN {type_map[ClassifiedInfo.entry_type]}
          ELSE {ClassifiedInfo.entry_type})

\* the categories the tests yield on the ancestor declarations that have a
\* record
AncestorCategories ==
    {_check_entry_type_from_info(DictGet(method_info, parent_method, NoInfo)) :
        parent_method \in {x \in Range(_find_parent_methods(classified.method)) :
                               DictHas(method_info, x)}}

\* C26 as worded: when the method's own tests match a category, that category
\* is the result and no ancestor declaration changes it; the ancestor
\* declarations are consulted only when the own tests match nothing
C26_OwnMatchShieldsFromAncestors ==
    (Classified /\ ClassifiedInfo.entry_type = "" /\ OwnCategory # "Unknown")
        => classified.entry_type = OwnCategory

\* C26 as amended: the ancestor declarations are always consulted; the result
\* is a category of the highest priority among those the method's own record
\* and its ancestor declarations yield, and it is one of the method's own
\* unless an ancestor declaration yields a category of strictly higher
\* priority than every one of the method's own
C26_BestOfOwnAndAncestors ==
    Classified =>
        LET pool == OwnCategories \cup AncestorCategories
        IN  /\ classified.entry_type \in pool
            /\ \A c \in pool :
                  _entry_priority(classified.entry_type) <= _entry_priority(c)
            /\ (\A a \in AncestorCategories : \E o \in OwnCategories :
                     _entry_priority(o) <= _entry_priority(a))
                   => classified.entry_type \in OwnCategories

\* a method whose own tests yield Test Method was classified as the HTTP
\* endpoint that its ancestor declaration is
C26_Witness ==
    /\ Classified
    /\ ClassifiedInfo.entry_type = ""
    /\ OwnCategory = "Test Method"
    /\ AncestorCategories = {"HTTP Endpoint (Spring)"}
    /\ classified.entry_type = "HTTP Endpoint (Spring)"


---------------------------------------------------------------------------
(* C27: the two forward traversals against each other                       *)

TriplesOf(nodes) ==
    [i \in 1..Len(nodes) |-> <<nodes[i].depth, nodes[i].method, nodes[i].is_circular>>]

\* C27: for every store, policy, root, max_depth and follow_implementations
\* the (depth, signature, circular) triples of _print_tree_recursive are those
\* of _collect_tree_data, also when an edge target that carries
\* implementation candidates is in the cut-subtree set
C27_PrintEqualsCollect ==
    /\ (pc = "done" /\ inv.kind = "print") =>
           Triples = TriplesOf(CollectedTree(inv.root_method, inv.max_depth,
                                             inv.follow_implementations).out)
    /\ (pc = "done" /\ inv.kind = "collect") =>
           Triples = TriplesOf(PrintedTree(inv.root_method, inv.max_depth,
                                           inv.follow_implementations).out)


---------------------------------------------------------------------------
(* C28: the terminal sets of the batch script and of the visualizer         *)

\* the script and the visualizer hold the same reverse-edge map
SameReverseMap ==
    \A sig \in DOMAIN batch.reverse_calls \cup DOMAIN reverse_calls :
        Get(batch.reverse_calls, sig, <<>>) = Get(reverse_calls, sig, <<>>)

NoRules == include_exclusions = {} /\ exclude_children = {}

\* C28: with the same reverse-edge map, no exclusion rules and
\* override-following disabled, find_final_endpoints of the batch script
\* returns the terminal set that the visualizer's reverse traversal
\* accumulates, for every target and max_depth, also when a method is first
\* reached near the ceiling and later by a shorter path
C28_BatchEqualsVisualizer ==
    (/\ pc = "done" /\ inv.kind = "batch"
     /\ ~inv.follow_overrides /\ NoRules /\ SameReverseMap)
        => final_endpoints = ReversedTree(inv.root_method, inv.max_depth, FALSE).final_endpoints


---------------------------------------------------------------------------
(* C29: the output under a raised ceiling                                   *)

\* the triples of depth at most d
UpToDepth(triples, d) == SelectSeq(triples, LAMBDA x : x[1] <= d)

\* what the finished traversal would have emitted with ceiling max_depth
WithCeiling(max_depth) ==
    IF inv.kind = "print"
    THEN PrintedTree(inv.root_method, max_depth, inv.follow_implementations).out
    ELSE CollectedTree(inv.root_method, max_depth, inv.follow_implementations).out

\* C29: for every store, policy and root and all d < d', the forward output
\* with max_depth d is the subsequence of the nodes of depth <= d of the
\* output with max_depth d': a raised ceiling only adds deeper nodes
C29_RaisedCeilingOnlyAdds ==
    (pc = "done" /\ inv.kind \in {"print", "collect"}) =>
        \A d \in Depths :
            d > inv.max_depth =>
                Triples = UpToDepth(TriplesOf(WithCeiling(d)), inv.max_depth)


---------------------------------------------------------------------------
(* C30: the resolved nodes of one call site                                 *)

\* the edge of node j whose candidates child i of j was resolved from: the
\* edge of the last child before i that is not a resolved node
EdgeOfChild(j, i) ==
    LET before == {k \in ChildrenAsSet(j) :
                      k < i /\ out[k].parent_relation # "implementation_candidate"}
    IN  IncludedEdges(out[j].method)[Cardinality(before)]

\* the resolved nodes of out with the node they hang below
ResolvedNodes ==
    {<<j, i>> \in (1..Len(out)) \X (1..Len(out)) :
        /\ i \in ChildrenAsSet(j)
        /\ out[i].parent_relation = "implementation_candidate"}

\* the positions in the candidate list of e that resolve to the method
ResolvingCandidates(e, method) ==
    LET candidates == FirstWords(CommaList(e.implementations))
    IN  {k \in 1..Len(candidates) :
            _find_implementation_method(e.method, candidates[k]) = method}

\* the resolved nodes of the same call site that show the same method
Twins(j, i) ==
    {k \in ChildrenAsSet(j) :
        /\ out[k].parent_relation = "implementation_candidate"
        /\ EdgeOfChild(j, k) = EdgeOfChild(j, i)
        /\ out[k].method = out[i].method}

Collected == pc = "done" /\ inv.kind = "collect"

\* C30 as worded: every resolved node of an edge has the member-part of the
\* abstract target and another signature, and no two resolved nodes of one
\* edge have the same signature
C30_ResolvedNodesDistinct ==
    Collected =>
        \A x \in ResolvedNodes :
            LET e == EdgeOfChild(x[1], x[2])
            IN  /\ MemberPart(out[x[2]].method) = MemberPart(e.method)
                /\ out[x[2]].method # e.method
                /\ Twins(x[1], x[2]) = {x[2]}

\* C30 as amended: every resolved node of an edge has the member-part of the
\* abstract target and is the resolver's result for a candidate of the edge;
\* it has the signature of the abstract target only when that is what the
\* resolver returns for a candidate, and the resolved nodes of one edge that
\* show one method are at most as many as the candidates resolving to it
C30_ResolvedNodePerCandidate ==
    Collected =>
        \A x \in ResolvedNodes :
            LET e == EdgeOfChild(x[1], x[2])
            IN  /\ MemberPart(out[x[2]].method) = MemberPart(e.method)
                /\ e.implementations # <<>>
                /\ ResolvingCandidates(e, out[x[2]].method) # {}
                /\ Cardinality(Twins(x[1], x[2]))
                       <= Cardinality(ResolvingCandidates(e, out[x[2]].method))

\* a collection in which two candidates of one edge, neither owning the
\* method, were both resolved to the abstract target itself
C30_Witness ==
    /\ Collected
    /\ \E x \in ResolvedNodes :
          /\ out[x[2]].method = EdgeOfChild(x[1], x[2]).method
          /\ Cardinality(Twins(x[1], x[2])) = 2
          /\ \A c \in Range(FirstWords(CommaList(EdgeOfChild(x[1], x[2]).implementations))) :
                FirstOwned(c, MemberPart(out[x[2]].method)) = None

====
